---- MODULE Spec2Model ----
(***************************************************************************)
(* Fact-to-verdict pipeline of the launch structure verifier:              *)
(*   gather_facts -> run_checks -> aggregate_score -> generate_explanation *)
(* The f64 arithmetic of the aggregator and of the holder-concentration    *)
(* curves is carried out bit-exactly (IEEE-754 binary64, round to nearest, *)
(* ties to even) on fixed-point numbers held in limbs.                     *)
(***************************************************************************)
EXTENDS Integers, Sequences, FiniteSets, TLC

None == <<>>

Some(v) == <<v>>

IsSome(o) == o # None

Unwrap(o) == o[1]

(***************************************************************************)
(* f64.  Every f64 value that the modelled code can produce is a           *)
(* non-negative multiple of 2^-70 below 2^22, so it is held exactly as the *)
(* natural number  value * 2^70,  written as four limbs of LimbBits bits,  *)
(* least significant limb first.  An operation computes the exact result   *)
(* and rounds it to 53 significant bits, as the hardware does.             *)
(***************************************************************************)
LimbBits == 23

FracBits == 70

Mantissa == 53

Pow2(n) == 2 ^ n

LimbBase == Pow2(LimbBits)

BigZero == <<0, 0, 0, 0>>

\* number of significant bits of a limb
RECURSIVE BitLen(_)
BitLen(n) ==
    IF n >= 4096 THEN 12 + BitLen(n \div 4096)
    ELSE IF n >= 64 THEN 6 + BitLen(n \div 64)
    ELSE IF n >= 8 THEN 3 + BitLen(n \div 8)
    ELSE IF n >= 4 THEN 3
    ELSE IF n >= 2 THEN 2
    ELSE n

\* number of significant bits of N
BigBitLen(N) ==
    IF N[4] # 0 THEN 3 * LimbBits + BitLen(N[4])
    ELSE IF N[3] # 0 THEN 2 * LimbBits + BitLen(N[3])
    ELSE IF N[2] # 0 THEN LimbBits + BitLen(N[2])
    ELSE BitLen(N[1])

\* bit number b (0 = least significant) of N
BigBit(N, b) == (N[(b \div LimbBits) + 1] \div Pow2(b % LimbBits)) % 2

\* limb i of N mod 2^k
LimbLow(N, i, k) ==
    IF i * LimbBits <= k THEN N[i]
    ELSE IF (i - 1) * LimbBits >= k THEN 0
    ELSE N[i] % Pow2(k - (i - 1) * LimbBits)

\* N mod 2^k
BigLow(N, k) == <<LimbLow(N, 1, k), LimbLow(N, 2, k), LimbLow(N, 3, k), LimbLow(N, 4, k)>>

\* N - (N mod 2^k)
BigClearLow(N, k) ==
    <<N[1] - LimbLow(N, 1, k), N[2] - LimbLow(N, 2, k),
      N[3] - LimbLow(N, 3, k), N[4] - LimbLow(N, 4, k)>>

\* A + B (exact)
BigAdd(A, B) ==
    LET s1 == A[1] + B[1]
        s2 == A[2] + B[2] + (s1 \div LimbBase)
        s3 == A[3] + B[3] + (s2 \div LimbBase)
        s4 == A[4] + B[4] + (s3 \div LimbBase)
    IN  <<s1 % LimbBase, s2 % LimbBase, s3 % LimbBase, s4 % LimbBase>>

\* A - B (exact, A >= B)
BigSub(A, B) ==
    LET d1 == A[1] - B[1]
        d2 == A[2] - B[2] - (IF d1 < 0 THEN 1 ELSE 0)
        d3 == A[3] - B[3] - (IF d2 < 0 THEN 1 ELSE 0)
        d4 == A[4] - B[4] - (IF d3 < 0 THEN 1 ELSE 0)
    IN  <<(d1 + LimbBase) % LimbBase, (d2 + LimbBase) % LimbBase,
          (d3 + LimbBase) % LimbBase, (d4 + LimbBase) % LimbBase>>

\* A * w (exact), w a natural below 256
BigMulSmall(A, w) ==
    LET p1 == A[1] * w
        p2 == A[2] * w + (p1 \div LimbBase)
        p3 == A[3] * w + (p2 \div LimbBase)
        p4 == A[4] * w + (p3 \div LimbBase)
    IN  <<p1 % LimbBase, p2 % LimbBase, p3 % LimbBase, p4 % LimbBase>>

\* <<floor(A / d), A mod d>>, d a positive natural below 256
BigDivRemSmall(A, d) ==
    LET t4 == A[4]
        t3 == (t4 % d) * LimbBase + A[3]
        t2 == (t3 % d) * LimbBase + A[2]
        t1 == (t2 % d) * LimbBase + A[1]
    IN  <<(<<t1 \div d, t2 \div d, t3 \div d, t4 \div d>>), t1 % d>>

\* limb i of 2^k
LimbPow2(i, k) == IF i = (k \div LimbBits) + 1 THEN Pow2(k % LimbBits) ELSE 0

\* 2^k as a big number
BigPow2(k) == <<LimbPow2(1, k), LimbPow2(2, k), LimbPow2(3, k), LimbPow2(4, k)>>

\* the integer n (0 <= n < 256) as an f64: n * 2^70
BigFromInt(n) == BigMulSmall(BigPow2(FracBits), n)

\* Round the exact value N + (a positive amount below 2^-70 iff sticky) to
\* 53 significant bits, to nearest, ties to even.
Round53(N, sticky) ==
    LET k == BigBitLen(N) - Mantissa
    IN  IF k <= 0 THEN N
        ELSE LET half == BigBit(N, k - 1) = 1
                 rest == sticky \/ BigLow(N, k - 1) # BigZero
                 odd  == BigBit(N, k) = 1
                 kept == BigClearLow(N, k)
             IN  IF half /\ (rest \/ odd) THEN BigAdd(kept, BigPow2(k)) ELSE kept

\* the f64 operations the code uses
F64Div(A, d) == LET qr == BigDivRemSmall(A, d) IN Round53(qr[1], qr[2] # 0)

F64Mul(A, w) == Round53(BigMulSmall(A, w), FALSE)

F64Add(A, B) == Round53(BigAdd(A, B), FALSE)

F64Sub(A, B) == Round53(BigSub(A, B), FALSE)

\* f64::round (half away from zero) of a non-negative value, as an integer
F64RoundToInt(A) ==
    LET int == A[4] \div Pow2(FracBits - 3 * LimbBits)
    IN  IF BigBit(A, FracBits - 1) = 1 THEN int + 1 ELSE int

\* `x as u8` for a non-negative integer-valued f64: saturating
AsU8(n) == IF n > 255 THEN 255 ELSE n

(***************************************************************************)
(* types.rs                                                                *)
(***************************************************************************)
CheckStatus == {"Pass", "Fail", "Unknown"}

Severity == {"Critical", "High", "Medium", "Low"}

Grade == {"Strong", "Mixed", "Fragile", "Compromised"}

\* CheckResult; label, category, value and evidence are informational
\* payloads that no later stage reads, so they are not carried.
CheckResult(id, status, severity, weight, score_component) ==
    [id |-> id, status |-> status, severity |-> severity,
     weight |-> weight, score_component |-> score_component]

(***************************************************************************)
(* scoring/aggregator.rs                                                   *)
(***************************************************************************)
U8Modulus == 256

\* grade_from_score with the Fragile threshold made exclusive
grade_from_score_exclusive(score) ==
    IF score >= 80 THEN "Strong"
    ELSE IF score >= 60 THEN "Mixed"
    ELSE IF score > 40 THEN "Fragile"
    ELSE "Compromised"

grade_from_score(score) ==
    IF score >= 80 THEN "Strong"
    ELSE IF score >= 60 THEN "Mixed"
    ELSE IF score >= 40 THEN "Fragile"
    ELSE "Compromised"

\* (check.weight as f64) * (score as f64 / 100.0)
weighted_points_of(weight, score) == F64Mul(F64Div(BigFromInt(score), 100), weight)

\* the locals of aggregate_score before the loop; overflowed records that
\* `weights_total += check.weight` has exceeded the u8 range
AggStart ==
    [weights_total |-> 0, points_total |-> BigZero, components |-> <<>>,
     has_critical_failure |-> FALSE, overflowed |-> FALSE]

\* one iteration of `for check in checks`, weights_total wrapping as a u8
AggStep(acc, check) ==
    LET critical_failure == check.severity = "Critical" /\ check.status = "Fail"
    IN  IF IsSome(check.score_component)
        THEN LET score == Unwrap(check.score_component)
                 weighted_points == weighted_points_of(check.weight, score)
             IN  [weights_total |-> (acc.weights_total + check.weight) % U8Modulus,
                  points_total |-> F64Add(acc.points_total, weighted_points),
                  components |-> Append(acc.components,
                      [id |-> check.id, weight |-> check.weight,
                       component_score |-> Some(score),
                       weighted_points |-> Some(weighted_points)]),
                  has_critical_failure |-> acc.has_critical_failure \/ critical_failure,
                  overflowed |-> acc.overflowed
                                 \/ acc.weights_total + check.weight >= U8Modulus]
        ELSE [acc EXCEPT
                !.components = Append(@,
                    [id |-> check.id, weight |-> check.weight,
                     component_score |-> None, weighted_points |-> None]),
                !.has_critical_failure = @ \/ critical_failure]

RECURSIVE AggLoop(_, _)
AggLoop(checks, n) ==
    IF n = 0 THEN AggStart ELSE AggStep(AggLoop(checks, n - 1), checks[n])

\* AggResult without the critical-failure override
AggResult_no_override(acc) ==
    LET fairness_score ==
            IF acc.weights_total = 0 THEN None
            ELSE Some(AsU8(F64RoundToInt(
                     F64Mul(F64Div(acc.points_total, acc.weights_total), 100))))
        grade ==
            IF IsSome(fairness_score) THEN grade_from_score(Unwrap(fairness_score))
            ELSE "Compromised"
    IN  [panicked |-> FALSE, fairness_score |-> fairness_score, grade |-> grade,
         components |-> acc.components, weights_total |-> acc.weights_total]

\* AggResult grading missing evidence as neutral instead of worst-case
AggResult_neutral_default(acc) ==
    LET fairness_score ==
            IF acc.weights_total = 0 THEN None
            ELSE Some(AsU8(F64RoundToInt(
                     F64Mul(F64Div(acc.points_total, acc.weights_total), 100))))
        grade ==
            IF acc.has_critical_failure THEN "Compromised"
            ELSE IF IsSome(fairness_score) THEN grade_from_score(Unwrap(fairness_score))
            ELSE "Mixed"
    IN  [panicked |-> FALSE, fairness_score |-> fairness_score, grade |-> grade,
         components |-> acc.components, weights_total |-> acc.weights_total]

\* the ScoreResult built after the loop
AggResult(acc) ==
    LET fairness_score ==
            IF acc.weights_total = 0 THEN None
            ELSE Some(AsU8(F64RoundToInt(
                     F64Mul(F64Div(acc.points_total, acc.weights_total), 100))))
        grade ==
            IF acc.has_critical_failure THEN "Compromised"
            ELSE IF IsSome(fairness_score) THEN grade_from_score(Unwrap(fairness_score))
            ELSE "Compromised"
    IN  [panicked |-> FALSE, fairness_score |-> fairness_score, grade |-> grade,
         components |-> acc.components, weights_total |-> acc.weights_total]

\* the call never returns: `attempt to add with overflow`
AggPanic ==
    [panicked |-> TRUE, fairness_score |-> None, grade |-> "-",
     components |-> <<>>, weights_total |-> 0]

\* aggregate_score: the outcomes the build can produce.  The u8 addition
\* wraps when overflow checks are off (release profile) and panics when they
\* are on (debug profile).
aggregate_score(checks) ==
    LET acc == AggLoop(checks, Len(checks))
    IN  IF acc.overflowed THEN {AggResult(acc), AggPanic} ELSE {AggResult(acc)}

(***************************************************************************)
(* checks/*.rs.  TokenFacts is a record of five options; a percentage is   *)
(* an f64 holding a whole number of percent.                               *)
(***************************************************************************)
\* check_mint_authority_disabled reporting severity High
check_mint_authority_high(facts) ==
    IF ~IsSome(facts.authorities)
    THEN CheckResult("mint_authority_disabled", "Unknown", "High", 25, None)
    ELSE LET is_disabled == ~IsSome(Unwrap(facts.authorities).mint_authority)
         IN  CheckResult("mint_authority_disabled",
                         IF is_disabled THEN "Pass" ELSE "Fail",
                         "High", 25,
                         IF is_disabled THEN Some(100) ELSE Some(0))

check_mint_authority_disabled(facts) ==
    IF ~IsSome(facts.authorities)
    THEN CheckResult("mint_authority_disabled", "Unknown", "Critical", 25, None)
    ELSE LET is_disabled == ~IsSome(Unwrap(facts.authorities).mint_authority)
         IN  CheckResult("mint_authority_disabled",
                         IF is_disabled THEN "Pass" ELSE "Fail",
                         "Critical", 25,
                         IF is_disabled THEN Some(100) ELSE Some(0))

check_freeze_authority_disabled(facts) ==
    IF ~IsSome(facts.authorities)
    THEN CheckResult("freeze_authority_disabled", "Unknown", "High", 20, None)
    ELSE LET is_disabled == ~IsSome(Unwrap(facts.authorities).freeze_authority)
         IN  CheckResult("freeze_authority_disabled",
                         IF is_disabled THEN "Pass" ELSE "Fail",
                         "High", 20,
                         IF is_disabled THEN Some(100) ELSE Some(0))

check_ownership_renounced(facts) ==
    IF ~IsSome(facts.authorities)
    THEN CheckResult("ownership_renounced", "Unknown", "High", 20, None)
    ELSE LET owner == Unwrap(facts.authorities).owner
         IN  CheckResult("ownership_renounced",
                         IF ~IsSome(owner) THEN "Pass" ELSE "Fail",
                         "Critical", 20,
                         IF ~IsSome(owner) THEN Some(100) ELSE Some(0))

\* lerp adding the magnitude of the slope term rather than subtracting it
lerp_sign_error(x, x0, x1, y0, y1) ==
    IF x <= x0 THEN BigFromInt(y0)
    ELSE IF x >= x1 THEN BigFromInt(y1)
    ELSE F64Add(BigFromInt(y0), F64Div(BigFromInt((x - x0) * (y0 - y1)), x1 - x0))

\* lerp, called with y0 >= y1
lerp(x, x0, x1, y0, y1) ==
    IF x <= x0 THEN BigFromInt(y0)
    ELSE IF x >= x1 THEN BigFromInt(y1)
    ELSE F64Sub(BigFromInt(y0), F64Div(BigFromInt((x - x0) * (y0 - y1)), x1 - x0))

score_top1(pct) ==
    IF pct <= 10 THEN BigFromInt(100)
    ELSE IF pct <= 20 THEN lerp(pct, 10, 20, 100, 60)
    ELSE IF pct <= 40 THEN lerp(pct, 20, 40, 60, 25)
    ELSE IF pct <= 70 THEN lerp(pct, 40, 70, 25, 0)
    ELSE BigZero

score_top5(pct) ==
    IF pct <= 30 THEN BigFromInt(100)
    ELSE IF pct <= 50 THEN lerp(pct, 30, 50, 100, 60)
    ELSE IF pct <= 70 THEN lerp(pct, 50, 70, 60, 25)
    ELSE IF pct <= 90 THEN lerp(pct, 70, 90, 25, 0)
    ELSE BigZero

\* ((score1 + score5) / 2.0).round() as u8
combined_score(top1_pct, top5_pct) ==
    AsU8(F64RoundToInt(F64Div(F64Add(score_top1(top1_pct), score_top5(top5_pct)), 2)))

check_holder_concentration(facts) ==
    IF ~IsSome(facts.holders)
       \/ ~IsSome(Unwrap(facts.holders).top1_pct)
       \/ ~IsSome(Unwrap(facts.holders).top5_pct)
    THEN CheckResult("holder_concentration", "Unknown", "Medium", 20, None)
    ELSE LET combined == combined_score(Unwrap(Unwrap(facts.holders).top1_pct),
                                        Unwrap(Unwrap(facts.holders).top5_pct))
         IN  CheckResult("holder_concentration",
                         IF combined >= 50 THEN "Pass" ELSE "Fail",
                         IF combined >= 80 THEN "Low"
                         ELSE IF combined >= 50 THEN "Medium" ELSE "High",
                         20, Some(combined))

\* check_token_age scoring an unknown age band as the youngest one
check_token_age_scored_unknown(facts) ==
    IF ~IsSome(facts.creation)
    THEN CheckResult("token_age", "Unknown", "Low", 10, None)
    ELSE LET band == Unwrap(facts.creation).age_band
             score == IF band = "GreaterThan7d" THEN 100
                      ELSE IF band = "Day1To7" THEN 70 ELSE 40
         IN  CheckResult("token_age",
                         IF band = "Unknown" THEN "Unknown" ELSE "Pass",
                         "Low", 10, Some(score))

check_token_age(facts) ==
    IF ~IsSome(facts.creation) \/ Unwrap(facts.creation).age_band = "Unknown"
    THEN CheckResult("token_age", "Unknown", "Low", 10, None)
    ELSE LET band == Unwrap(facts.creation).age_band
             score == IF band = "GreaterThan7d" THEN 100
                      ELSE IF band = "Day1To7" THEN 70 ELSE 40
         IN  CheckResult("token_age", "Pass", "Low", 10, Some(score))

\* <<is_standard, severity>>
check_solana_standard(standard) ==
    IF standard \in {"SplToken", "SplToken2022"} THEN <<TRUE, "Medium">>
    ELSE IF standard = "Unknown" THEN <<FALSE, "High">>
    ELSE <<FALSE, "Medium">>

check_evm_standard(standard, decimals) ==
    IF standard = "Erc20" /\ IsSome(decimals) THEN <<TRUE, "Medium">>
    ELSE IF standard = "Unknown" THEN <<FALSE, "High">>
    ELSE <<FALSE, "Medium">>

check_standard_sanity(facts, chain) ==
    IF ~IsSome(facts.metadata)
    THEN CheckResult("standard_sanity", "Unknown", "Medium", 10, None)
    ELSE LET metadata == Unwrap(facts.metadata)
             r == IF chain = "solana" THEN check_solana_standard(metadata.standard)
                  ELSE IF chain \in {"base", "evm"}
                       THEN check_evm_standard(metadata.standard, metadata.decimals)
                  ELSE <<FALSE, "Medium">>
         IN  CheckResult("standard_sanity",
                         IF r[1] THEN "Pass" ELSE "Fail", r[2], 10,
                         IF r[1] THEN Some(100) ELSE Some(0))

(***************************************************************************)
(* api/analyze.rs                                                          *)
(***************************************************************************)
\* run_checks matching only "base" | "evm" for the EVM check set
run_checks_without_ethereum(facts, chain) ==
    IF chain = "solana"
    THEN <<check_mint_authority_disabled(facts),
           check_freeze_authority_disabled(facts),
           check_holder_concentration(facts),
           check_token_age(facts),
           check_standard_sanity(facts, chain)>>
    ELSE IF chain \in {"base", "evm"}
    THEN <<check_ownership_renounced(facts),
           check_holder_concentration(facts),
           check_token_age(facts),
           check_standard_sanity(facts, chain)>>
    ELSE <<check_holder_concentration(facts),
           check_token_age(facts)>>

run_checks(facts, chain) ==
    IF chain = "solana"
    THEN <<check_mint_authority_disabled(facts),
           check_freeze_authority_disabled(facts),
           check_holder_concentration(facts),
           check_token_age(facts),
           check_standard_sanity(facts, chain)>>
    ELSE IF chain \in {"base", "evm", "ethereum"}
    THEN <<check_ownership_renounced(facts),
           check_holder_concentration(facts),
           check_token_age(facts),
           check_standard_sanity(facts, chain)>>
    ELSE <<check_holder_concentration(facts),
           check_token_age(facts)>>

\* name, symbol, created_at and age_seconds are copied through unread
build_token_metadata(facts) ==
    IF ~IsSome(facts.metadata) THEN None
    ELSE Some([decimals |-> Unwrap(facts.metadata).decimals,
               total_supply |-> IF IsSome(facts.supply)
                                THEN Unwrap(facts.supply).total_supply ELSE None,
               program_standard |-> Unwrap(facts.metadata).standard,
               age_band |-> IF IsSome(facts.creation)
                            THEN Unwrap(facts.creation).age_band ELSE "Unknown"])

MintBullet == "Mint authority exists: supply is mutable and can be inflated."

OwnerBullet == "Ownership not renounced: contract parameters can still be changed."

FreezeBullet == "Freeze authority exists: token balances can be frozen."

ConcentrationBullet == "High holder concentration increases structural fragility."

AffirmativeBullet == "All structural checks passed. Token appears fairly launched."

GenericBullet == "Some structural checks failed. Review details above."

\* the body of the first loop of generate_explanation
critical_bullet(check) ==
    IF check.severity = "Critical" /\ check.status = "Fail"
    THEN IF check.id = "mint_authority_disabled" THEN <<MintBullet>>
         ELSE IF check.id = "ownership_renounced" THEN <<OwnerBullet>>
         ELSE <<>>
    ELSE <<>>

\* the body of the second loop
high_bullet(check) ==
    IF check.severity = "High" /\ check.status = "Fail"
       /\ check.id = "freeze_authority_disabled"
    THEN <<FreezeBullet>> ELSE <<>>

\* the body of the third loop
concentration_bullet(check) ==
    IF check.id = "holder_concentration" /\ IsSome(check.score_component)
       /\ Unwrap(check.score_component) < 50
    THEN <<ConcentrationBullet>> ELSE <<>>

RECURSIVE critical_bullets(_, _)
critical_bullets(checks, n) ==
    IF n = 0 THEN <<>> ELSE critical_bullets(checks, n - 1) \o critical_bullet(checks[n])

RECURSIVE high_bullets(_, _)
high_bullets(checks, n) ==
    IF n = 0 THEN <<>> ELSE high_bullets(checks, n - 1) \o high_bullet(checks[n])

RECURSIVE concentration_bullets(_, _)
concentration_bullets(checks, n) ==
    IF n = 0 THEN <<>>
    ELSE concentration_bullets(checks, n - 1) \o concentration_bullet(checks[n])

summary_for(grade) ==
    IF grade = "Strong" THEN "Structure looks sound. No major weaknesses detected."
    ELSE IF grade = "Mixed" THEN "Structure is mostly sound with some areas of concern."
    ELSE IF grade = "Fragile"
         THEN "Structure shows significant fragility. Proceed with caution."
    ELSE "Structure is fundamentally compromised. High risk."

\* generate_explanation falling back to the affirmative bullet whenever no
\* specific bullet applied
generate_explanation_no_generic(checks, score) ==
    LET specific == critical_bullets(checks, Len(checks))
                    \o high_bullets(checks, Len(checks))
                    \o concentration_bullets(checks, Len(checks))
    IN  [summary |-> summary_for(score.grade),
         what_to_do |-> IF specific = <<>> THEN <<AffirmativeBullet>> ELSE specific]

generate_explanation(checks, score) ==
    LET has_failures == \E i \in 1..Len(checks) : checks[i].status = "Fail"
        specific == critical_bullets(checks, Len(checks))
                    \o high_bullets(checks, Len(checks))
                    \o concentration_bullets(checks, Len(checks))
        what_to_do == IF specific = <<>> /\ ~has_failures THEN <<AffirmativeBullet>>
                      ELSE IF specific = <<>> /\ has_failures THEN <<GenericBullet>>
                      ELSE specific
    IN  [summary |-> summary_for(score.grade), what_to_do |-> what_to_do]

\* analysis_status counting only metadata as a partial result
analysis_status_metadata_only(facts, errors) ==
    IF errors = <<>> THEN "Ok"
    ELSE IF IsSome(facts.metadata) THEN "Partial"
    ELSE "Error"

analysis_status(facts, errors) ==
    IF errors = <<>> THEN "Ok"
    ELSE IF IsSome(facts.metadata) \/ IsSome(facts.authorities) THEN "Partial"
    ELSE "Error"

(***************************************************************************)
(* State.  One analyze invocation against a provider whose five fetches    *)
(* each succeed with some value or fail with some ProviderError; and one   *)
(* call of aggregate_score on an arbitrary list of check results.          *)
(***************************************************************************)
VARIABLES
    pc,         \* where the invocation stands
    request,    \* AnalyzeRequest: chain and options.include_holders
    facts,      \* the TokenFacts bundle of gather_facts
    errors,     \* the errors vector of analyze
    calls,      \* the provider's log of the fetches it served, in order
    response,   \* the AnalyzeResponse, once returned
    checks_in,  \* the argument of the aggregate_score call
    score_out,  \* its ScoreResult, once returned
    entries,    \* SimpleCache.entries: the CacheEntry records, one per key
    clock,      \* SystemTime::now() since UNIX_EPOCH, in milliseconds
    ticks,      \* how many times the clock has advanced
    last,       \* the last SimpleCache method called directly: when, and its result
    handlers,   \* per analyze_handler invocation: position, request, response
    lock,       \* AppState.cache (the Mutex): its holder, if any
    served,     \* the requests answered so far, in order of return
    provider_calls \* how many times a provider has been consulted

analyzeVars == <<pc, request, facts, errors, calls, response>>

aggVars == <<checks_in, score_out>>

cacheVars == <<entries, clock, ticks, last>>

serverVars == <<handlers, lock, served, provider_calls>>

vars == <<analyzeVars, aggVars, cacheVars, serverVars>>

\* the cache and the server as they are when nothing has used them
NoCache ==
    /\ entries = {}
    /\ clock = 0
    /\ ticks = 0
    /\ last = None

NoServer ==
    /\ handlers = <<>>
    /\ lock = None
    /\ served = <<>>
    /\ provider_calls = 0

Chains == {"solana", "base", "evm", "ethereum", "polygon"}

TokenStandard == {"SplToken", "SplToken2022", "Erc20", "Unknown"}

AgeBand == {"LessThan24h", "Day1To7", "GreaterThan7d", "Unknown"}

ProviderError == {"Timeout", "NotFound"}

MetadataValues ==
    {[standard |-> "SplToken", decimals |-> Some(9)],
     [standard |-> "SplToken2022", decimals |-> Some(6)],
     [standard |-> "Erc20", decimals |-> Some(18)],
     [standard |-> "Erc20", decimals |-> None],
     [standard |-> "Unknown", decimals |-> Some(9)],
     [standard |-> "Unknown", decimals |-> None]}

SupplyValues == {[total_supply |-> Some(1000000)]}

AuthorityValues ==
    [mint_authority : {None, Some("MintAuth")},
     freeze_authority : {None, Some("FreezeAuth")},
     owner : {None, Some("0xOwner")}]

HolderValues ==
    {[top1_pct |-> Some(8), top5_pct |-> Some(28)],
     [top1_pct |-> Some(25), top5_pct |-> Some(61)],
     [top1_pct |-> Some(62), top5_pct |-> Some(88)],
     [top1_pct |-> None, top5_pct |-> Some(28)],
     [top1_pct |-> Some(8), top5_pct |-> None]}

CreationValues == [age_band : AgeBand]

NoFacts ==
    [metadata |-> None, supply |-> None, authorities |-> None,
     holders |-> None, creation |-> None]

\* no analyze invocation and no aggregate_score call under way
NoAnalysis ==
    /\ request = [chain |-> "solana", include_holders |-> TRUE]
    /\ facts = NoFacts
    /\ errors = <<>>
    /\ calls = <<>>
    /\ response = None
    /\ checks_in = <<>>
    /\ score_out = None

\* a provider call returns Ok(value) or Err(error)
Results(values) == {<<"Ok", v>> : v \in values} \cup {<<"Err", e>> : e \in ProviderError}

Init ==
    /\ pc = "fetch_metadata"
    /\ request \in [chain : Chains, include_holders : BOOLEAN]
    /\ facts = NoFacts
    /\ errors = <<>>
    /\ calls = <<>>
    /\ response = None
    /\ checks_in = <<>>
    /\ score_out = None
    /\ NoCache
    /\ NoServer

\* Fetch propagating the error (`?`) instead of recording it and going on
Fetch_short_circuit(here, category, values, next) ==
    /\ pc = here
    /\ \E r \in Results(values) :
        /\ calls' = Append(calls, <<category, r[1]>>)
        /\ IF r[1] = "Ok"
           THEN /\ facts' = [facts EXCEPT ![category] = Some(r[2])]
                /\ UNCHANGED errors
                /\ pc' = next
           ELSE /\ errors' = Append(errors, <<"Failed to fetch", category, r[2]>>)
                /\ UNCHANGED facts
                /\ pc' = "checks"
    /\ UNCHANGED <<request, response, aggVars, cacheVars, serverVars>>

\* one `match provider.fetch_x(address).await` of gather_facts
Fetch(here, category, values, next) ==
    /\ pc = here
    /\ \E r \in Results(values) :
        /\ calls' = Append(calls, <<category, r[1]>>)
        /\ IF r[1] = "Ok"
           THEN /\ facts' = [facts EXCEPT ![category] = Some(r[2])]
                /\ UNCHANGED errors
           ELSE /\ errors' = Append(errors, <<"Failed to fetch", category, r[2]>>)
                /\ UNCHANGED facts
    /\ pc' = next
    /\ UNCHANGED <<request, response, aggVars, cacheVars, serverVars>>

FetchMetadata == Fetch("fetch_metadata", "metadata", MetadataValues, "fetch_supply")

FetchSupply == Fetch("fetch_supply", "supply", SupplyValues, "fetch_authorities")

FetchAuthorities == Fetch("fetch_authorities", "authorities", AuthorityValues, "fetch_holders")

\* FetchHolders ignoring options.include_holders
FetchHolders_unconditional ==
    Fetch("fetch_holders", "holders", HolderValues, "fetch_creation")

FetchHolders ==
    /\ request.include_holders
    /\ Fetch("fetch_holders", "holders", HolderValues, "fetch_creation")

SkipHolders ==
    /\ pc = "fetch_holders"
    /\ ~request.include_holders
    /\ pc' = "fetch_creation"
    /\ UNCHANGED <<request, facts, errors, calls, response, aggVars, cacheVars, serverVars>>

FetchCreation == Fetch("fetch_creation", "creation", CreationValues, "checks")

\* analyze after gather_facts returns: status, checks, score, token, explanation
Finish ==
    /\ pc = "checks"
    /\ LET checks == run_checks(facts, request.chain)
       IN  \E score \in aggregate_score(checks) :
           IF score.panicked
           THEN pc' = "panicked" /\ UNCHANGED response
           ELSE /\ pc' = "done"
                /\ response' = Some(
                     [chain |-> request.chain,
                      status |-> analysis_status(facts, errors),
                      token |-> build_token_metadata(facts),
                      checks |-> checks,
                      score |-> score,
                      explain |-> generate_explanation(checks, score),
                      errors |-> errors])
    /\ UNCHANGED <<request, facts, errors, calls, aggVars, cacheVars, serverVars>>

Next ==
    \/ FetchMetadata
    \/ FetchSupply
    \/ FetchAuthorities
    \/ FetchHolders
    \/ SkipHolders
    \/ FetchCreation
    \/ Finish

Spec == Init /\ [][Next]_vars

(***************************************************************************)
(* aggregate_score called on its own, on every list of at most MaxChecks   *)
(* check results over the values below.                                    *)
(***************************************************************************)
MaxChecks == 2

AggWeights == {10, 200}

AggScores == {None, Some(38), Some(83)}

AggCheckValues ==
    [id : {"check"}, status : CheckStatus, severity : Severity,
     weight : AggWeights, score_component : AggScores]

AggCheckLists == UNION {[1..n -> AggCheckValues] : n \in 0..MaxChecks}

InitAgg ==
    /\ pc = "aggregate"
    /\ checks_in \in AggCheckLists
    /\ score_out = None
    /\ request = [chain |-> "solana", include_holders |-> TRUE]
    /\ facts = NoFacts
    /\ errors = <<>>
    /\ calls = <<>>
    /\ response = None
    /\ NoCache
    /\ NoServer

Aggregate ==
    /\ pc = "aggregate"
    /\ \E score \in aggregate_score(checks_in) :
        /\ score_out' = Some(score)
        /\ pc' = IF score.panicked THEN "panicked" ELSE "returned"
    /\ UNCHANGED <<request, facts, errors, calls, response, checks_in, cacheVars, serverVars>>

NextAgg == Aggregate

SpecAgg == InitAgg /\ [][NextAgg]_vars

(***************************************************************************)
(* Properties of aggregate_score (SpecAgg)                                 *)
(***************************************************************************)
Returned == pc = "returned"

Result == Unwrap(score_out)

HasCriticalFail(checks) ==
    \E i \in 1..Len(checks) :
        checks[i].severity = "Critical" /\ checks[i].status = "Fail"

Present(checks) == {i \in 1..Len(checks) : IsSome(checks[i].score_component)}

\* the sum of the weights of the checks that carry a score, as an integer
RECURSIVE SumWeights(_, _)
SumWeights(checks, n) ==
    IF n = 0 THEN 0
    ELSE SumWeights(checks, n - 1)
         + (IF IsSome(checks[n].score_component) THEN checks[n].weight ELSE 0)

\* the sum of weight * score over the checks that carry a score
RECURSIVE SumPoints(_, _)
SumPoints(checks, n) ==
    IF n = 0 THEN 0
    ELSE SumPoints(checks, n - 1)
         + (IF IsSome(checks[n].score_component)
            THEN checks[n].weight * Unwrap(checks[n].score_component) ELSE 0)

\* round(points / weights), halves rounded up, in exact integer arithmetic
HalfUpMean(points, weights) == (2 * points + weights) \div (2 * weights)

\* C1: whenever aggregate_score returns for a list holding a check that is
\* Critical and Fail, the grade is Compromised, whatever fairness_score is.
C1_CriticalOverride ==
    (Returned /\ HasCriticalFail(checks_in)) => Result.grade = "Compromised"

\* C1 witness: a Critical failure next to a fairness_score of 80 or more
C1_Witness ==
    /\ Returned
    /\ HasCriticalFail(checks_in)
    /\ IsSome(Result.fairness_score)
    /\ Unwrap(Result.fairness_score) >= 80
    /\ Result.grade = "Compromised"

\* C3: for a list in which no check carries a score_component (the empty
\* list included) aggregate_score returns, with fairness_score absent,
\* weights_total 0 and grade Compromised.
C3_FailClosed ==
    (pc # "aggregate" /\ Present(checks_in) = {})
        => /\ Returned
           /\ Result.fairness_score = None
           /\ Result.weights_total = 0
           /\ Result.grade = "Compromised"

\* C3 witness: a non-empty list of score-less checks without a Critical failure
C3_Witness ==
    /\ Returned
    /\ Len(checks_in) = MaxChecks
    /\ Present(checks_in) = {}
    /\ ~HasCriticalFail(checks_in)
    /\ Result.grade = "Compromised"

\* C5: weights_total is the sum of the weights of exactly the checks whose
\* score_component is present, and a check without one is reported with its
\* weight, no component_score and no weighted_points.
C5_WeightsTotal ==
    Returned =>
        /\ Result.weights_total = SumWeights(checks_in, Len(checks_in))
        /\ Len(Result.components) = Len(checks_in)
        /\ \A i \in 1..Len(checks_in) :
            /\ Result.components[i].weight = checks_in[i].weight
            /\ Result.components[i].component_score = checks_in[i].score_component
            /\ IsSome(Result.components[i].weighted_points)
                   <=> IsSome(checks_in[i].score_component)

\* C6: when weights_total > 0 and every present score_component is in
\* 0..100, fairness_score is the weighted mean of the present components
\* rounded half up, and lies in 0..100.
C6_WeightedMean ==
    (/\ Returned
     /\ Result.weights_total > 0
     /\ \A i \in Present(checks_in) : Unwrap(checks_in[i].score_component) \in 0..100)
        => /\ Result.fairness_score =
                Some(HalfUpMean(SumPoints(checks_in, Len(checks_in)),
                                SumWeights(checks_in, Len(checks_in))))
           /\ Unwrap(Result.fairness_score) \in 0..100

\* C7: without a Critical failure and with fairness_score present, the grade
\* is Strong from 80, Mixed from 60, Fragile from 40, Compromised below 40.
C7_GradeThresholds ==
    (Returned /\ ~HasCriticalFail(checks_in) /\ IsSome(Result.fairness_score))
        => LET score == Unwrap(Result.fairness_score)
           IN  /\ Result.grade = "Strong" <=> score >= 80
               /\ Result.grade = "Mixed" <=> (60 <= score /\ score < 80)
               /\ Result.grade = "Fragile" <=> (40 <= score /\ score < 60)
               /\ Result.grade = "Compromised" <=> score < 40

\* C7 witness: a score on a threshold, graded by the band that starts there
C7_Witness ==
    /\ Returned
    /\ ~HasCriticalFail(checks_in)
    /\ Result.fairness_score = Some(40)
    /\ Result.grade = "Fragile"

\* C8: aggregate_score returns for every list, and weights_total is the true
\* sum of the counted weights.
C8_NeverFails ==
    pc # "aggregate"
        => /\ Returned
           /\ Result.weights_total = SumWeights(checks_in, Len(checks_in))

(***************************************************************************)
(* Properties of analyze (Spec)                                            *)
(***************************************************************************)
Done == pc = "done"

Resp == Unwrap(response)

InSeq(x, seq) == \E i \in 1..Len(seq) : seq[i] = x

Ids(checks) == [i \in 1..Len(checks) |-> checks[i].id]

MintAuthorityReported ==
    /\ IsSome(facts.authorities)
    /\ IsSome(Unwrap(facts.authorities).mint_authority)

ScoreConsistent(check) == IsSome(check.score_component) <=> check.status # "Unknown"

Categories(include_holders) ==
    IF include_holders
    THEN <<"metadata", "supply", "authorities", "holders", "creation">>
    ELSE <<"metadata", "supply", "authorities", "creation">>

Failed == {i \in 1..Len(calls) : calls[i][2] = "Err"}

\* the categories of the failed calls, in call order
RECURSIVE FailedCategories(_)
FailedCategories(n) ==
    IF n = 0 THEN <<>>
    ELSE FailedCategories(n - 1)
         \o (IF calls[n][2] = "Err" THEN <<calls[n][1]>> ELSE <<>>)

\* C2: on chain "solana", whenever fetch_authorities succeeded and reported
\* a mint authority, the response has grade Compromised and its what_to_do
\* holds the mint-authority bullet.
C2_MintAuthorityCompromised ==
    (pc \in {"done", "panicked"} /\ request.chain = "solana" /\ MintAuthorityReported)
        => /\ Done
           /\ Resp.score.grade = "Compromised"
           /\ InSeq(MintBullet, Resp.explain.what_to_do)

\* C2 witness: a mint authority on a token whose other checks all pass, so
\* that the score alone would grade it Mixed
C2_Witness ==
    /\ Done
    /\ request.chain = "solana"
    /\ MintAuthorityReported
    /\ Resp.score.fairness_score = Some(71)
    /\ Resp.score.grade = "Compromised"
    /\ InSeq(MintBullet, Resp.explain.what_to_do)

\* C4: for the facts gathered so far and every chain, each of the six check
\* functions returns a score_component iff its status is not Unknown; so do
\* the checks of every response.
C4_ScoreIffKnown ==
    /\ ScoreConsistent(check_mint_authority_disabled(facts))
    /\ ScoreConsistent(check_freeze_authority_disabled(facts))
    /\ ScoreConsistent(check_ownership_renounced(facts))
    /\ ScoreConsistent(check_holder_concentration(facts))
    /\ ScoreConsistent(check_token_age(facts))
    /\ \A chain \in Chains : ScoreConsistent(check_standard_sanity(facts, chain))
    /\ Done => \A i \in 1..Len(Resp.checks) : ScoreConsistent(Resp.checks[i])

\* C4 witness: a response with holders fetched but one concentration
\* missing and an unknown age band, next to checks that did decide
C4_Witness ==
    /\ Done
    /\ IsSome(facts.holders)
    /\ ~IsSome(Unwrap(facts.holders).top5_pct)
    /\ IsSome(facts.creation)
    /\ Unwrap(facts.creation).age_band = "Unknown"
    /\ \E i \in 1..Len(Resp.checks) : Resp.checks[i].status = "Unknown"
    /\ \E i \in 1..Len(Resp.checks) : Resp.checks[i].status = "Fail"

\* C9: the ids of the checks of a response, in order, are fixed by the
\* chain string alone.
C9_CheckSelection ==
    Done =>
        Ids(Resp.checks) =
            IF request.chain = "solana"
            THEN <<"mint_authority_disabled", "freeze_authority_disabled",
                   "holder_concentration", "token_age", "standard_sanity">>
            ELSE IF request.chain \in {"base", "evm", "ethereum"}
            THEN <<"ownership_renounced", "holder_concentration",
                   "token_age", "standard_sanity">>
            ELSE <<"holder_concentration", "token_age">>

\* C9 witness: chain "ethereum" answered with the four EVM checks although
\* no fetch succeeded
C9_Witness ==
    /\ Done
    /\ request.chain = "ethereum"
    /\ facts = NoFacts
    /\ Len(Resp.checks) = 4
    /\ Resp.checks[1].id = "ownership_renounced"

\* C10: when gather_facts has returned, the provider has been asked for
\* every category in order (holders iff include_holders) whatever failed,
\* a sub-record is present iff its fetch succeeded, errors holds one entry
\* per failed fetch, in order, and analyze goes on to return a response.
C10_PartialFailure ==
    /\ pc # "panicked"
    /\ pc \in {"checks", "done"} =>
        /\ [i \in 1..Len(calls) |-> calls[i][1]] = Categories(request.include_holders)
        /\ \A c \in DOMAIN facts : IsSome(facts[c]) <=> InSeq(<<c, "Ok">>, calls)
        /\ Len(errors) = Cardinality(Failed)
        /\ [i \in 1..Len(errors) |-> errors[i][2]] = FailedCategories(Len(calls))
    /\ pc = "checks" =>
        \E score \in aggregate_score(run_checks(facts, request.chain)) : ~score.panicked
    /\ Done => IsSome(response) /\ Resp.errors = errors

\* C10 witness: a response after the first and the fourth fetch failed and
\* the three others succeeded
C10_Witness ==
    /\ Done
    /\ [i \in 1..Len(calls) |-> calls[i][2]] = <<"Err", "Ok", "Ok", "Err", "Ok">>
    /\ ~IsSome(facts.metadata)
    /\ IsSome(facts.supply) /\ IsSome(facts.authorities) /\ IsSome(facts.creation)
    /\ Len(Resp.errors) = 2

\* the categories the provider was asked for, in call order
CallCategories == [i \in 1..Len(calls) |-> calls[i][1]]

NotHolders(category) == category # "holders"

\* C11: the status of a response is Ok iff no fetch failed, Partial iff some
\* fetch failed and metadata or authorities was obtained, Error iff some
\* fetch failed and neither was obtained.
C11_Status ==
    Done =>
        LET obtained == IsSome(facts.metadata) \/ IsSome(facts.authorities)
        IN  /\ Resp.status = "Ok" <=> (Failed = {} /\ Resp.errors = <<>>)
            /\ Resp.status = "Partial" <=> (Failed # {} /\ obtained)
            /\ Resp.status = "Error" <=> (Failed # {} /\ ~obtained)

\* C11 witness: Partial on the strength of authorities alone, metadata failed
C11_Witness ==
    /\ Done
    /\ ~IsSome(facts.metadata)
    /\ IsSome(facts.authorities)
    /\ Resp.status = "Partial"

\* C12: with include_holders false fetch_holders is never called, holders
\* stays absent and no holders error is recorded; and the other four fetches
\* are issued, in the same order, whatever include_holders is.
C12_HoldersSkipped ==
    /\ ~request.include_holders =>
        /\ \A i \in 1..Len(calls) : calls[i][1] # "holders"
        /\ facts.holders = None
        /\ \A i \in 1..Len(errors) : errors[i][2] # "holders"
    /\ pc \in {"checks", "done"} =>
        SelectSeq(CallCategories, NotHolders)
            = <<"metadata", "supply", "authorities", "creation">>

\* C12 witness: a response with status Ok although holders were never fetched
C12_Witness ==
    /\ Done
    /\ ~request.include_holders
    /\ Len(calls) = 4
    /\ facts.holders = None
    /\ Resp.status = "Ok"

(***************************************************************************)
(* cache/simple_cache.rs                                                   *)
(***************************************************************************)
\* ttl_for_response sending an unknown age band to the default arm
ttl_for_response_default_arm(resp) ==
    IF IsSome(resp.token)
    THEN LET age_band == Unwrap(resp.token).age_band
         IN  IF age_band = "LessThan24h" THEN 600 ELSE 3600
    ELSE 1800

ttl_for_response(resp) ==
    IF IsSome(resp.token)
    THEN LET age_band == Unwrap(resp.token).age_band
         IN  IF age_band = "LessThan24h" THEN 600
             ELSE IF age_band = "Day1To7" THEN 3600
             ELSE IF age_band = "GreaterThan7d" THEN 3600
             ELSE IF age_band = "Unknown" THEN 1800
             ELSE 3600
    ELSE 1800

\* current_timestamp of simple_cache.rs: the clock as whole seconds
current_timestamp(ms) == ms \div 1000

\* u64::saturating_sub
saturating_sub(a, b) == IF a >= b THEN a - b ELSE 0

\* Fresh with the comparison made inclusive
Fresh_inclusive(entry, now) == saturating_sub(now, entry.cached_at) <= entry.ttl_seconds

\* the age test of get and of cleanup
Fresh(entry, now) == saturating_sub(now, entry.cached_at) < entry.ttl_seconds

HasKey(es, key) == \E e \in es : e.key = key

\* HashMap::get on a key that is present
EntryOf(es, key) == CHOOSE e \in es : e.key = key

\* format!("cached_{}", entry.cached_at)
CacheMarker(cached_at) == <<"cached_", cached_at>>

\* SimpleCache::get at time now (seconds)
SimpleCache_get(es, key, now) ==
    IF HasKey(es, key) /\ Fresh(EntryOf(es, key), now)
    THEN Some([EntryOf(es, key).response EXCEPT
                 !.requested_at = CacheMarker(EntryOf(es, key).cached_at)])
    ELSE None

\* SimpleCache::set at time now: HashMap::insert replaces the entry of the key
SimpleCache_set(es, key, resp, ttl_seconds, now) ==
    {e \in es : e.key # key}
        \cup {[key |-> key, response |-> resp, cached_at |-> now,
                ttl_seconds |-> ttl_seconds]}

SimpleCache_remove(es, key) == {e \in es : e.key # key}

\* SimpleCache::cleanup keeping every entry
SimpleCache_cleanup_keep_all(es, now) == es

\* SimpleCache::cleanup at time now: HashMap::retain
SimpleCache_cleanup(es, now) == {e \in es : Fresh(e, now)}

(***************************************************************************)
(* SimpleCache used on its own, as its unit tests use it: any sequence of  *)
(* get, set, remove, clear, size and cleanup on two keys while the clock   *)
(* advances.                                                               *)
(***************************************************************************)
MaxTicks == 3

TestKeys == {"key1", "key2"}

TestTtls == {0, 600}

\* the steps of the clock, in milliseconds
ClockSteps == {1000, 599000}

\* make_test_response, under two analysis ids
TestResponses ==
    {[analysis_id |-> id, requested_at |-> <<12, 0, 0>>, chain |-> "solana",
      address |-> "test_address", status |-> "Ok", token |-> None,
      checks |-> <<>>,
      score |-> [panicked |-> FALSE, fairness_score |-> Some(100),
                 grade |-> "Strong", components |-> <<>>, weights_total |-> 100],
      explain |-> [summary |-> "Test", what_to_do |-> <<>>],
      errors |-> <<>>] : id \in {"test123", "test456"}}

Called(op, key, at, result) ==
    Some([op |-> op, key |-> key, at |-> at, result |-> result])

InitCache ==
    /\ pc = "cache"
    /\ NoAnalysis
    /\ NoCache
    /\ NoServer

CacheGet ==
    /\ pc = "cache"
    /\ \E key \in TestKeys :
        LET now == current_timestamp(clock)
        IN  last' = Called("get", key, now, SimpleCache_get(entries, key, now))
    /\ UNCHANGED <<analyzeVars, aggVars, entries, clock, ticks, serverVars>>

CacheSet ==
    /\ pc = "cache"
    /\ \E key \in TestKeys, resp \in TestResponses, ttl_seconds \in TestTtls :
        LET now == current_timestamp(clock)
        IN  /\ entries' = SimpleCache_set(entries, key, resp, ttl_seconds, now)
            /\ last' = Called("set", key, now, None)
    /\ UNCHANGED <<analyzeVars, aggVars, clock, ticks, serverVars>>

CacheRemove ==
    /\ pc = "cache"
    /\ \E key \in TestKeys :
        /\ entries' = SimpleCache_remove(entries, key)
        /\ last' = Called("remove", key, current_timestamp(clock), HasKey(entries, key))
    /\ UNCHANGED <<analyzeVars, aggVars, clock, ticks, serverVars>>

CacheClear ==
    /\ pc = "cache"
    /\ entries' = {}
    /\ last' = Called("clear", None, current_timestamp(clock), None)
    /\ UNCHANGED <<analyzeVars, aggVars, clock, ticks, serverVars>>

CacheSize ==
    /\ pc = "cache"
    /\ last' = Called("size", None, current_timestamp(clock), Cardinality(entries))
    /\ UNCHANGED <<analyzeVars, aggVars, entries, clock, ticks, serverVars>>

\* cleanup returns nothing: what is kept of the call is the map it found
CacheCleanup ==
    /\ pc = "cache"
    /\ LET now == current_timestamp(clock)
       IN  /\ entries' = SimpleCache_cleanup(entries, now)
           /\ last' = Called("cleanup", None, now, entries)
    /\ UNCHANGED <<analyzeVars, aggVars, clock, ticks, serverVars>>

\* the wall clock advances
CacheTick ==
    /\ pc = "cache"
    /\ ticks < MaxTicks
    /\ \E d \in ClockSteps : clock' = clock + d
    /\ ticks' = ticks + 1
    /\ UNCHANGED <<analyzeVars, aggVars, entries, last, serverVars>>

NextCache ==
    \/ CacheGet
    \/ CacheSet
    \/ CacheRemove
    \/ CacheClear
    \/ CacheSize
    \/ CacheCleanup
    \/ CacheTick

SpecCache == InitCache /\ [][NextCache]_vars

\* C18: the TTL of a response follows from the age band of its token
\* metadata alone: 600 for LessThan24h, 3600 for Day1To7 and GreaterThan7d,
\* 1800 for Unknown (creation time not fetched included) and 1800 without
\* token metadata; every TTL is positive.
C18_TtlByAgeBand ==
    Done =>
        LET ttl == ttl_for_response(Resp)
            band == IF IsSome(facts.creation)
                    THEN Unwrap(facts.creation).age_band ELSE "Unknown"
        IN  /\ ttl = IF ~IsSome(facts.metadata) THEN 1800
                      ELSE IF band = "LessThan24h" THEN 600
                      ELSE IF band \in {"Day1To7", "GreaterThan7d"} THEN 3600
                      ELSE 1800
            /\ ttl \in {600, 1800, 3600}

\* C18 witness: metadata fetched, creation time not fetched, TTL 1800
C18_Witness ==
    /\ Done
    /\ IsSome(facts.metadata)
    /\ ~IsSome(facts.creation)
    /\ IsSome(Resp.token)
    /\ Unwrap(Resp.token).age_band = "Unknown"
    /\ ttl_for_response(Resp) = 1800

(***************************************************************************)
(* api/cached_analyze.rs: the cache key.  Strings are strings: format!     *)
(* concatenates the Display forms of its arguments around the literal      *)
(* text of the format string.                                              *)
(***************************************************************************)
\* Display for bool
BoolDisplay(b) == IF b THEN "true" ELSE "false"

Digit(d) == <<"0", "1", "2", "3", "4", "5", "6", "7", "8", "9">>[d + 1]

\* Display for usize
RECURSIVE UsizeDisplay(_)
UsizeDisplay(n) ==
    IF n < 10 THEN Digit(n) ELSE UsizeDisplay(n \div 10) \o Digit(n % 10)

\* format!("{}:{}:{}:{}", chain, address, include_holders, max_holders)
cache_key(req) ==
    req.chain \o ":" \o req.address \o ":" \o BoolDisplay(req.include_holders)
        \o ":" \o UsizeDisplay(req.max_holders)

(***************************************************************************)
(* The key of analyze_with_cache on its own: two requests, each with any   *)
(* of the strings below for chain and address, have their keys computed.   *)
(***************************************************************************)
KeyChains == {"solana", "base", "a", "a:b"}

KeyAddresses == {"T", "c", "b:c", "T:true"}

KeyMaxHolders == {0, 10, 100}

\* AnalyzeRequest with its AnalyzeOptions flattened
KeyRequests ==
    [chain : KeyChains, address : KeyAddresses, include_holders : BOOLEAN,
     max_holders : KeyMaxHolders, force_refresh : BOOLEAN]

\* an invocation standing at `at` that has not computed anything yet:
\* its request, its cache key, when analyze_with_cache was entered and the
\* entry then under the key, its response and where it came from, the
\* provider calls it made, the entry it stored and the entry that
\* HashMap::insert replaced
Invocation(req, at) ==
    [pc |-> at, request |-> req, cache_key |-> None,
     looked_at |-> None, found |-> None,
     response |-> None, source |-> "none", fetched |-> 0,
     stored |-> None, replaced |-> None]

InitKey ==
    /\ pc = "key"
    /\ NoAnalysis
    /\ NoCache
    /\ handlers \in {<<Invocation(r1, "key"), Invocation(r2, "key")>> :
                        r1 \in KeyRequests, r2 \in KeyRequests}
    /\ lock = None
    /\ served = <<>>
    /\ provider_calls = 0

\* `let cache_key = format!(...)` of one invocation
ComputeKey ==
    /\ pc = "key"
    /\ \E h \in DOMAIN handlers :
        /\ handlers[h].pc = "key"
        /\ handlers' = [handlers EXCEPT
                          ![h].cache_key = Some(cache_key(handlers[h].request)),
                          ![h].pc = "lookup"]
    /\ UNCHANGED <<analyzeVars, aggVars, cacheVars, lock, served, provider_calls>>

NextKey == ComputeKey

SpecKey == InitKey /\ [][NextKey]_vars

(***************************************************************************)
(* server.rs: analyze_handler invocations sharing AppState.cache.  Each    *)
(* takes the Mutex, runs analyze_with_cache under it and releases it on    *)
(* return.  The provider of an invocation answers all its fetches or none. *)
(***************************************************************************)
MaxRequests == 2

MaxServerTicks == 2

ServerRequests ==
    [chain : {"solana"}, address : {"T1", "T2"}, include_holders : {TRUE},
     max_holders : {10}, force_refresh : BOOLEAN]
    \cup {[chain |-> "polygon", address |-> "T1", include_holders |-> TRUE,
           max_holders |-> 10, force_refresh |-> FALSE]}

\* the steps of the clock between the steps of the handlers, in milliseconds
ServerClockSteps == {1, 600000}

\* the chains analyze_handler has a provider for
SupportedChains == {"solana", "base", "ethereum", "evm"}

\* what gather_facts ends with: a young, clean token with every fetch
\* answered, only the first fetch answered, or every fetch failed
FetchedFacts ==
    [metadata |-> Some([standard |-> "SplToken", decimals |-> Some(9)]),
     supply |-> Some([total_supply |-> Some(1000000)]),
     authorities |-> Some([mint_authority |-> None, freeze_authority |-> None,
                           owner |-> None]),
     holders |-> Some([top1_pct |-> Some(8), top5_pct |-> Some(28)]),
     creation |-> Some([age_band |-> "LessThan24h"])]

FailedErrors(include_holders) ==
    [i \in 1..Len(Categories(include_holders)) |->
        <<"Failed to fetch", Categories(include_holders)[i], "Timeout">>]

\* only fetch_metadata was answered
MetadataOnlyFacts == [NoFacts EXCEPT !.metadata = FetchedFacts.metadata]

ProviderOutcomes(include_holders) ==
    {[facts |-> FetchedFacts, errors |-> <<>>],
     [facts |-> MetadataOnlyFacts, errors |-> Tail(FailedErrors(include_holders))],
     [facts |-> NoFacts, errors |-> FailedErrors(include_holders)]}

\* generate_analysis_id: format!("analysis_{}", now) with now in milliseconds
generate_analysis_id(ms) == <<"analysis_", ms>>

\* current_timestamp of analyze.rs: hours, minutes and seconds of the day
current_timestamp_iso(ms) ==
    LET now == ms \div 1000
    IN  <<(now \div 3600) % 24, (now \div 60) % 60, now % 60>>

\* the AnalyzeResponse that analyze builds
AnalyzeResponse(req, f, errs, checks, score, ms) ==
    [analysis_id |-> generate_analysis_id(ms),
     requested_at |-> current_timestamp_iso(ms),
     chain |-> req.chain,
     address |-> req.address,
     status |-> analysis_status(f, errs),
     token |-> build_token_metadata(f),
     checks |-> checks,
     score |-> score,
     explain |-> generate_explanation(checks, score),
     errors |-> errs]

InitServer ==
    /\ pc = "server"
    /\ NoAnalysis
    /\ NoCache
    /\ NoServer

\* a request arrives and its handler starts
Receive ==
    /\ pc = "server"
    /\ Len(handlers) < MaxRequests
    /\ \E req \in ServerRequests :
        handlers' = Append(handlers, Invocation(req, "lock"))
    /\ UNCHANGED <<analyzeVars, aggVars, cacheVars, lock, served, provider_calls>>

\* Acquire taking the cache without waiting for the Mutex
Acquire_without_lock(h) ==
    /\ pc = "server"
    /\ h \in DOMAIN handlers
    /\ handlers[h].pc = "lock"
    /\ lock' = Some(h)
    /\ handlers' = [handlers EXCEPT ![h].pc = "lookup"]
    /\ UNCHANGED <<analyzeVars, aggVars, cacheVars, served, provider_calls>>

\* state.cache.lock().await
Acquire(h) ==
    /\ pc = "server"
    /\ h \in DOMAIN handlers
    /\ handlers[h].pc = "lock"
    /\ lock = None
    /\ lock' = Some(h)
    /\ handlers' = [handlers EXCEPT ![h].pc = "lookup"]
    /\ UNCHANGED <<analyzeVars, aggVars, cacheVars, served, provider_calls>>

\* what Lookup does with the request once the chain has a provider:
\* cache_key, then cache.get unless `consult` is false
LookupWith(h, consult) ==
    LET req == handlers[h].request
        key == cache_key(req)
        now == current_timestamp(clock)
        cached == SimpleCache_get(entries, key, now)
        before == IF HasKey(entries, key) THEN Some(EntryOf(entries, key)) ELSE None
    IN  IF consult
        THEN handlers' = [handlers EXCEPT
               ![h].cache_key = Some(key),
               ![h].looked_at = Some(now),
               ![h].found = before,
               ![h].response = cached,
               ![h].source = IF IsSome(cached) THEN "cache" ELSE "none",
               ![h].pc = IF IsSome(cached) THEN "return" ELSE "analyze"]
        ELSE handlers' = [handlers EXCEPT
               ![h].cache_key = Some(key),
               ![h].looked_at = Some(now),
               ![h].found = before,
               ![h].pc = "analyze"]

\* Lookup consulting the cache whatever force_refresh says
Lookup_ignoring_force(h) ==
    /\ pc = "server"
    /\ h \in DOMAIN handlers
    /\ handlers[h].pc = "lookup"
    /\ IF handlers[h].request.chain \notin SupportedChains
       THEN handlers' = [handlers EXCEPT
              ![h].source = "BAD_REQUEST", ![h].pc = "return"]
       ELSE LookupWith(h, TRUE)
    /\ UNCHANGED <<analyzeVars, aggVars, cacheVars, lock, served, provider_calls>>

\* Lookup never consulting the cache
Lookup_always_fresh(h) ==
    /\ pc = "server"
    /\ h \in DOMAIN handlers
    /\ handlers[h].pc = "lookup"
    /\ IF handlers[h].request.chain \notin SupportedChains
       THEN handlers' = [handlers EXCEPT
              ![h].source = "BAD_REQUEST", ![h].pc = "return"]
       ELSE LookupWith(h, FALSE)
    /\ UNCHANGED <<analyzeVars, aggVars, cacheVars, lock, served, provider_calls>>

\* Lookup giving the lock back once the cache has been consulted
Lookup_releasing_lock(h) ==
    /\ pc = "server"
    /\ h \in DOMAIN handlers
    /\ handlers[h].pc = "lookup"
    /\ IF handlers[h].request.chain \notin SupportedChains
       THEN handlers' = [handlers EXCEPT
              ![h].source = "BAD_REQUEST", ![h].pc = "return"]
       ELSE LookupWith(h, ~handlers[h].request.force_refresh)
    /\ lock' = None
    /\ UNCHANGED <<analyzeVars, aggVars, cacheVars, served, provider_calls>>

\* analyze_handler's match on the chain, then the head of
\* analyze_with_cache: the key and the cache check
Lookup(h) ==
    /\ pc = "server"
    /\ h \in DOMAIN handlers
    /\ handlers[h].pc = "lookup"
    /\ IF handlers[h].request.chain \notin SupportedChains
       THEN handlers' = [handlers EXCEPT
              ![h].source = "BAD_REQUEST", ![h].pc = "return"]
       ELSE LookupWith(h, ~handlers[h].request.force_refresh)
    /\ UNCHANGED <<analyzeVars, aggVars, cacheVars, lock, served, provider_calls>>

\* analyze(request, provider).await
Analyze(h) ==
    /\ pc = "server"
    /\ h \in DOMAIN handlers
    /\ handlers[h].pc = "analyze"
    /\ LET req == handlers[h].request
       IN  \E outcome \in ProviderOutcomes(req.include_holders) :
           LET checks == run_checks(outcome.facts, req.chain)
               asked == Len(Categories(req.include_holders))
           IN  \E score \in aggregate_score(checks) :
               /\ provider_calls' = provider_calls + asked
               /\ IF score.panicked
                  THEN /\ handlers' = [handlers EXCEPT
                            ![h].fetched = asked, ![h].source = "panic",
                            ![h].pc = "done"]
                       /\ lock' = None
                       /\ served' = Append(served, h)
                  ELSE /\ handlers' = [handlers EXCEPT
                            ![h].response = Some(AnalyzeResponse(
                                req, outcome.facts, outcome.errors, checks, score, clock)),
                            ![h].source = "fresh",
                            ![h].fetched = asked,
                            ![h].pc = "store"]
                       /\ UNCHANGED <<lock, served>>
    /\ UNCHANGED <<analyzeVars, aggVars, cacheVars>>

\* Store keeping only the responses whose status is Ok
Store_only_ok(h) ==
    /\ pc = "server"
    /\ h \in DOMAIN handlers
    /\ handlers[h].pc = "store"
    /\ LET key == Unwrap(handlers[h].cache_key)
           resp == Unwrap(handlers[h].response)
           now == current_timestamp(clock)
           es == SimpleCache_set(entries, key, resp, ttl_for_response(resp), now)
       IN  IF resp.status = "Ok"
           THEN /\ entries' = es
                /\ handlers' = [handlers EXCEPT
                     ![h].stored = Some(EntryOf(es, key)),
                     ![h].replaced = IF HasKey(entries, key)
                                     THEN Some(EntryOf(entries, key)) ELSE None,
                     ![h].pc = "return"]
           ELSE /\ entries' = entries
                /\ handlers' = [handlers EXCEPT ![h].pc = "return"]
    /\ UNCHANGED <<analyzeVars, aggVars, clock, ticks, last, lock, served, provider_calls>>

\* ttl_for_response, then cache.set(cache_key, response.clone(), ttl)
Store(h) ==
    /\ pc = "server"
    /\ h \in DOMAIN handlers
    /\ handlers[h].pc = "store"
    /\ LET key == Unwrap(handlers[h].cache_key)
           resp == Unwrap(handlers[h].response)
           now == current_timestamp(clock)
           es == SimpleCache_set(entries, key, resp, ttl_for_response(resp), now)
       IN  /\ entries' = es
           /\ handlers' = [handlers EXCEPT
                ![h].stored = Some(EntryOf(es, key)),
                ![h].replaced = IF HasKey(entries, key)
                                THEN Some(EntryOf(entries, key)) ELSE None,
                ![h].pc = "return"]
    /\ UNCHANGED <<analyzeVars, aggVars, clock, ticks, last, lock, served, provider_calls>>

\* Return without dropping the MutexGuard
Return_keeping_lock(h) ==
    /\ pc = "server"
    /\ h \in DOMAIN handlers
    /\ handlers[h].pc = "return"
    /\ handlers' = [handlers EXCEPT ![h].pc = "done"]
    /\ served' = Append(served, h)
    /\ UNCHANGED <<analyzeVars, aggVars, cacheVars, lock, provider_calls>>

\* the handler returns and its MutexGuard is dropped
Return(h) ==
    /\ pc = "server"
    /\ h \in DOMAIN handlers
    /\ handlers[h].pc = "return"
    /\ handlers' = [handlers EXCEPT ![h].pc = "done"]
    /\ lock' = None
    /\ served' = Append(served, h)
    /\ UNCHANGED <<analyzeVars, aggVars, cacheVars, provider_calls>>

\* the wall clock advances
Tick ==
    /\ pc = "server"
    /\ ticks < MaxServerTicks
    /\ \E d \in ServerClockSteps : clock' = clock + d
    /\ ticks' = ticks + 1
    /\ UNCHANGED <<analyzeVars, aggVars, entries, last, serverVars>>

NextServer ==
    \/ Receive
    \/ \E h \in 1..MaxRequests : Acquire(h)
    \/ \E h \in 1..MaxRequests : Lookup(h)
    \/ \E h \in 1..MaxRequests : Analyze(h)
    \/ \E h \in 1..MaxRequests : Store(h)
    \/ \E h \in 1..MaxRequests : Return(h)
    \/ Tick

SpecServer == InitServer /\ [][NextServer]_vars

\* invocation h is inside analyze, waiting for the provider
AtProvider(h) == h \in DOMAIN handlers /\ handlers[h].pc = "analyze"

\* the same with the scheduling the program runs under: tokio's Mutex
\* grants the lock in arrival order, so a handler that waits while the lock
\* is released again and again gets it (SF); a handler that holds the lock
\* takes its next step (WF); and every provider call returns in the end, so
\* no handler stays inside analyze for ever
LiveServer ==
    /\ SpecServer
    /\ \A h \in 1..MaxRequests :
          /\ SF_vars(Acquire(h))
          /\ WF_vars(Lookup(h))
          /\ WF_vars(Store(h))
          /\ WF_vars(Return(h))
          /\ []<>~AtProvider(h)

(***************************************************************************)
(* Properties of SimpleCache (SpecCache)                                   *)
(***************************************************************************)
LastIs(op) == IsSome(last) /\ Unwrap(last).op = op

\* an entry for key exists whose age at time now is below its TTL
Unexpired(es, key, now) ==
    \E e \in es : e.key = key /\ now - e.cached_at < e.ttl_seconds

\* C13: get(key) at time now returns a response iff an entry for key exists
\* with now - cached_at < ttl_seconds (age = TTL and TTL 0 are misses); the
\* response returned is the stored one in every field but requested_at, which
\* is the cache marker.
C13_GetFreshOnly ==
    LastIs("get") =>
        LET get == Unwrap(last)
        IN  /\ IsSome(get.result) <=> Unexpired(entries, get.key, get.at)
            /\ \A e \in entries :
                  (e.key = get.key
                   /\ (e.ttl_seconds = 0 \/ get.at - e.cached_at = e.ttl_seconds))
                      => get.result = None
            /\ IsSome(get.result) =>
                  LET stored == EntryOf(entries, get.key)
                      found == Unwrap(get.result)
                  IN  /\ DOMAIN found = DOMAIN stored.response
                      /\ \A f \in DOMAIN found \ {"requested_at"} :
                            found[f] = stored.response[f]
                      /\ found.requested_at = CacheMarker(stored.cached_at)

\* C13 witness: a hit one second before the TTL elapses
C13_Witness ==
    /\ LastIs("get")
    /\ IsSome(Unwrap(last).result)
    /\ \E e \in entries :
          /\ e.key = Unwrap(last).key
          /\ Unwrap(last).at - e.cached_at = e.ttl_seconds - 1
          /\ Unwrap(Unwrap(last).result).analysis_id = e.response.analysis_id

\* C19: after cleanup at time now the cache holds exactly the entries it
\* held before with now - cached_at < ttl_seconds, unaltered, and get gives
\* for every key what it gave before.
C19_CleanupExact ==
    LastIs("cleanup") =>
        LET was == Unwrap(last).result
            now == Unwrap(last).at
        IN  /\ entries = {e \in was : now - e.cached_at < e.ttl_seconds}
            /\ \A key \in TestKeys :
                  SimpleCache_get(entries, key, now) = SimpleCache_get(was, key, now)

\* C19 witness: cleanup found two entries, removed the expired one and kept
\* one that has aged without expiring
C19_Witness ==
    /\ LastIs("cleanup")
    /\ Cardinality(Unwrap(last).result) = 2
    /\ Cardinality(entries) = 1
    /\ \E e \in entries : e.cached_at < Unwrap(last).at

(***************************************************************************)
(* Properties of the cache key (SpecKey)                                   *)
(***************************************************************************)
SameComponents(r1, r2) ==
    /\ r1.chain = r2.chain
    /\ r1.address = r2.address
    /\ r1.include_holders = r2.include_holders
    /\ r1.max_holders = r2.max_holders

KeysComputed == IsSome(handlers[1].cache_key) /\ IsSome(handlers[2].cache_key)

\* C17: two requests have the same cache key iff they agree on chain,
\* address, include_holders and max_holders; force_refresh plays no part.
C17_KeyIsTuple ==
    (pc = "key" /\ KeysComputed) =>
        (handlers[1].cache_key = handlers[2].cache_key
            <=> SameComponents(handlers[1].request, handlers[2].request))

\* the part of C17 that the code keeps: requests that agree on the four
\* components share a key whatever force_refresh is, and requests whose
\* chains hold no ":" share a key only if they agree on the four components
C17_KeyOfPlainChains ==
    (pc = "key" /\ KeysComputed) =>
        LET r1 == handlers[1].request
            r2 == handlers[2].request
        IN  /\ SameComponents(r1, r2) => handlers[1].cache_key = handlers[2].cache_key
            /\ (r1.chain # "a:b" /\ r2.chain # "a:b"
                 /\ handlers[1].cache_key = handlers[2].cache_key)
                    => SameComponents(r1, r2)

\* two requests that differ in chain and address and share a key
C17_Collision ==
    /\ pc = "key"
    /\ KeysComputed
    /\ handlers[1].cache_key = handlers[2].cache_key
    /\ handlers[1].request.chain # handlers[2].request.chain
    /\ handlers[1].request.address # handlers[2].request.address

(***************************************************************************)
(* Properties of analyze_with_cache behind analyze_handler (SpecServer)    *)
(***************************************************************************)
Handlers == DOMAIN handlers

\* analyze_with_cache has produced the response of invocation h
Answered(h) ==
    /\ handlers[h].pc \in {"return", "done"}
    /\ handlers[h].source \in {"cache", "fresh"}

\* the entry under h's key when its call began had not reached its TTL
FoundFresh(h) ==
    /\ IsSome(handlers[h].found)
    /\ Unwrap(handlers[h].looked_at) - Unwrap(handlers[h].found).cached_at
          < Unwrap(handlers[h].found).ttl_seconds

\* the entries of the cache under the key of invocation h
EntriesOfKey(h) == {e \in entries : e.key = Unwrap(handlers[h].cache_key)}

\* C14: a call without force_refresh that finds, before its TTL has elapsed,
\* the entry an earlier call stored under the same key returns that call's
\* analysis_id, makes no provider call, stores nothing and leaves exactly
\* that entry under the key.
C14_RoundTrip ==
    \A h \in Handlers :
        (Answered(h) /\ ~handlers[h].request.force_refresh /\ FoundFresh(h)) =>
            /\ handlers[h].source = "cache"
            /\ handlers[h].fetched = 0
            /\ handlers[h].stored = None
            /\ Unwrap(handlers[h].response).analysis_id
                  = Unwrap(handlers[h].found).response.analysis_id
            /\ \E g \in Handlers \ {h} :
                  /\ handlers[g].stored = handlers[h].found
                  /\ handlers[g].cache_key = handlers[h].cache_key
                  /\ Unwrap(handlers[g].response).analysis_id
                        = Unwrap(handlers[h].response).analysis_id
            /\ handlers[h].pc = "return" => EntriesOfKey(h) = {Unwrap(handlers[h].found)}

\* a second call answered from the entry of the first, some time after it
\* was stored, with the provider consulted for the first call only
C14_Witness ==
    /\ pc = "server"
    /\ Len(handlers) = 2
    /\ handlers[1].source = "fresh"
    /\ handlers[2].source = "cache"
    /\ handlers[2].pc = "done"
    /\ handlers[2].found = handlers[1].stored
    /\ Unwrap(handlers[2].looked_at) > Unwrap(handlers[1].stored).cached_at
    /\ Unwrap(handlers[2].response).analysis_id
          = Unwrap(handlers[1].response).analysis_id
    /\ provider_calls = handlers[1].fetched
    /\ Cardinality(entries) = 1

\* C15: a call that recomputes for a key that already holds a response
\* returns an analysis_id different from the one of the response it replaces.
C15_FreshId ==
    \A h \in Handlers :
        (IsSome(handlers[h].stored) /\ IsSome(handlers[h].replaced)) =>
            Unwrap(handlers[h].response).analysis_id
                # Unwrap(handlers[h].replaced).response.analysis_id

\* a forced recomputation in the millisecond of the computation it replaces
C15_SameMillisecond ==
    \E h \in Handlers :
        /\ handlers[h].request.force_refresh
        /\ handlers[h].source = "fresh"
        /\ IsSome(handlers[h].stored)
        /\ IsSome(handlers[h].replaced)
        /\ Unwrap(handlers[h].response).analysis_id
              = Unwrap(handlers[h].replaced).response.analysis_id

\* C16: a call with force_refresh is answered by the provider whatever the
\* cache holds, and stores its answer: once it has stored, the entry under
\* its key is the returned response with cached_at taken at the store and
\* the TTL of that response; a later call without force_refresh that finds
\* that entry before its TTL has elapsed returns the forced call's
\* analysis_id.
C16_ForceRefresh ==
    \A h \in Handlers :
        (Answered(h) /\ handlers[h].request.force_refresh) =>
            /\ handlers[h].source = "fresh"
            /\ handlers[h].fetched > 0
            /\ IsSome(handlers[h].stored)
            /\ Unwrap(handlers[h].stored).key = Unwrap(handlers[h].cache_key)
            /\ Unwrap(handlers[h].stored).response = Unwrap(handlers[h].response)
            /\ Unwrap(handlers[h].stored).ttl_seconds
                  = ttl_for_response(Unwrap(handlers[h].response))
            /\ Unwrap(handlers[h].stored).cached_at >= Unwrap(handlers[h].looked_at)
            /\ Unwrap(handlers[h].stored).cached_at <= current_timestamp(clock)
            /\ handlers[h].pc = "return" => EntriesOfKey(h) = {Unwrap(handlers[h].stored)}
            /\ \A g \in Handlers \ {h} :
                  (/\ Answered(g)
                   /\ ~handlers[g].request.force_refresh
                   /\ handlers[g].found = handlers[h].stored
                   /\ FoundFresh(g)) =>
                      /\ handlers[g].fetched = 0
                      /\ Unwrap(handlers[g].response).analysis_id
                            = Unwrap(handlers[h].response).analysis_id

\* a forced call that found an unexpired entry of an earlier call, went to
\* the provider all the same and replaced the entry with its own response
C16_Witness ==
    /\ pc = "server"
    /\ Len(handlers) = 2
    /\ handlers[1].source = "fresh"
    /\ handlers[2].request.force_refresh
    /\ handlers[2].pc = "return"
    /\ handlers[2].found = handlers[1].stored
    /\ FoundFresh(2)
    /\ handlers[2].source = "fresh"
    /\ provider_calls = handlers[1].fetched + handlers[2].fetched
    /\ handlers[2].replaced = handlers[1].stored
    /\ Unwrap(handlers[2].stored).cached_at > Unwrap(handlers[1].stored).cached_at
    /\ entries = {Unwrap(handlers[2].stored)}

\* the invocations between state.cache.lock().await and their return
InCritical == {h \in Handlers : handlers[h].pc \in {"lookup", "analyze", "store", "return"}}

\* C20: at most one invocation is between taking the lock and returning,
\* and it is the holder of the lock; every entry of the cache is the whole
\* response one invocation stored under its own key with the timestamp and
\* TTL of that store; and what an invocation stored is still under its key
\* unless a later store under the same key replaced it.
C20_Serialized ==
    /\ Cardinality(InCritical) <= 1
    /\ \A h \in InCritical : lock = Some(h)
    /\ IsSome(lock) => InCritical = {Unwrap(lock)}
    /\ \A e \in entries :
          \E h \in Handlers :
              /\ handlers[h].stored = Some(e)
              /\ handlers[h].cache_key = Some(e.key)
              /\ handlers[h].response = Some(e.response)
              /\ e.ttl_seconds = ttl_for_response(e.response)
    /\ \A h \in Handlers :
          IsSome(handlers[h].stored) =>
              \/ Unwrap(handlers[h].stored) \in entries
              \/ \E g \in Handlers \ {h} :
                    /\ handlers[g].replaced = handlers[h].stored
                    /\ handlers[g].cache_key = handlers[h].cache_key
    /\ \A h \in Handlers :
          (IsSome(handlers[h].stored) /\ handlers[h].pc = "return") =>
              \A e \in entries :
                  e.key # Unwrap(handlers[h].cache_key) =>
                      \E g \in Handlers \ {h} : handlers[g].stored = Some(e)

\* one invocation is about to store while the other waits for the lock, and
\* the cache still holds nothing
C20_Witness ==
    /\ pc = "server"
    /\ Len(handlers) = 2
    /\ handlers[1].pc = "lock"
    /\ handlers[2].pc = "store"
    /\ lock = Some(2)
    /\ handlers[1].request.address # handlers[2].request.address
    /\ entries = {}

(***************************************************************************)
(* Properties of the checks and of the explanation within analyze (Spec)   *)
(***************************************************************************)
EvmChains == {"base", "evm", "ethereum"}

\* the check of Resp with the given id (CheckOf is used where one exists)
HasCheck(id) == \E i \in 1..Len(Resp.checks) : Resp.checks[i].id = id

CheckOf(id) == Resp.checks[CHOOSE i \in 1..Len(Resp.checks) : Resp.checks[i].id = id]

\* C22: on the chains that run ownership_renounced, the check has severity
\* Critical and weight 20 whether authorities were fetched (Pass iff there
\* is no owner, else Fail) or not (Unknown).
C22_OwnershipCritical ==
    (Done /\ request.chain \in EvmChains) =>
        /\ HasCheck("ownership_renounced")
        /\ CheckOf("ownership_renounced").severity = "Critical"
        /\ CheckOf("ownership_renounced").weight = 20
        /\ IF IsSome(facts.authorities)
           THEN CheckOf("ownership_renounced").status
                  = (IF IsSome(Unwrap(facts.authorities).owner) THEN "Fail" ELSE "Pass")
           ELSE CheckOf("ownership_renounced").status = "Unknown"

\* authorities were not fetched and ownership_renounced is Unknown with
\* severity High
C22_UnknownIsHigh ==
    /\ Done
    /\ request.chain \in EvmChains
    /\ ~IsSome(facts.authorities)
    /\ CheckOf("ownership_renounced").status = "Unknown"
    /\ CheckOf("ownership_renounced").severity = "High"
    /\ CheckOf("ownership_renounced").weight = 20

\* C24: on "base", "evm" and "ethereum" alike, with metadata fetched,
\* standard_sanity is Pass iff the standard is Erc20 and decimals is known,
\* and Fail otherwise.
C24_EvmStandard ==
    (Done /\ request.chain \in EvmChains /\ IsSome(facts.metadata)) =>
        /\ HasCheck("standard_sanity")
        /\ CheckOf("standard_sanity").status
              = (IF Unwrap(facts.metadata).standard = "Erc20"
                    /\ IsSome(Unwrap(facts.metadata).decimals)
                 THEN "Pass" ELSE "Fail")

\* an Erc20 token with known decimals fails standard_sanity on "ethereum"
C24_EthereumFails ==
    /\ Done
    /\ request.chain = "ethereum"
    /\ IsSome(facts.metadata)
    /\ Unwrap(facts.metadata).standard = "Erc20"
    /\ IsSome(Unwrap(facts.metadata).decimals)
    /\ CheckOf("standard_sanity").status = "Fail"

\* C27: no response of analyze carries the affirmative bullet together with
\* grade Compromised and its summary.
C27_AdviceMatchesGrade ==
    Done =>
        ~(/\ InSeq(AffirmativeBullet, Resp.explain.what_to_do)
          /\ Resp.score.grade = "Compromised")

\* every fetch failed, every check is Unknown, the grade is Compromised and
\* the advice is the affirmative bullet
C27_AffirmativeCompromised ==
    /\ Done
    /\ facts = NoFacts
    /\ \A i \in 1..Len(Resp.checks) : Resp.checks[i].status = "Unknown"
    /\ Resp.score.grade = "Compromised"
    /\ Resp.explain.summary = summary_for("Compromised")
    /\ Resp.explain.what_to_do = <<AffirmativeBullet>>

(***************************************************************************)
(* The checks of the EVM set applied to the facts of test_evm_fair_launch  *)
(* with the holder percentages ranging over 0..MaxPct, then aggregated.    *)
(***************************************************************************)
MaxPct == 100

ZeroAddress == "0x0000000000000000000000000000000000000000"

\* the TokenFacts of test_evm_fair_launch with the given top1_pct, top5_pct
FairLaunchFacts(top1_pct, top5_pct) ==
    [metadata |-> Some([standard |-> "Erc20", decimals |-> Some(18)]),
     supply |-> Some([total_supply |-> Some(1000000)]),
     authorities |-> Some([mint_authority |-> None, freeze_authority |-> None,
                           owner |-> Some(ZeroAddress)]),
     holders |-> Some([top1_pct |-> Some(top1_pct), top5_pct |-> Some(top5_pct)]),
     creation |-> Some([age_band |-> "GreaterThan7d"])]

InitChecks ==
    /\ pc = "facts"
    /\ request = [chain |-> "evm", include_holders |-> TRUE]
    /\ facts \in {FairLaunchFacts(top1_pct, top5_pct) :
                    top1_pct \in 0..MaxPct, top5_pct \in 0..MaxPct}
    /\ errors = <<>>
    /\ calls = <<>>
    /\ response = None
    /\ checks_in = <<>>
    /\ score_out = None
    /\ NoCache
    /\ NoServer

\* the vec! of the four checks that the test builds
RunChecks ==
    /\ pc = "facts"
    /\ checks_in' = <<check_ownership_renounced(facts),
                      check_holder_concentration(facts),
                      check_token_age(facts),
                      check_standard_sanity(facts, request.chain)>>
    /\ pc' = "aggregate"
    /\ UNCHANGED <<request, facts, errors, calls, response, score_out, cacheVars, serverVars>>

NextChecks ==
    \/ RunChecks
    \/ Aggregate

SpecChecks == InitChecks /\ [][NextChecks]_vars

(***************************************************************************)
(* Properties of the checks on given facts (SpecChecks)                    *)
(***************************************************************************)
Top1 == Unwrap(Unwrap(facts.holders).top1_pct)

Top5 == Unwrap(Unwrap(facts.holders).top5_pct)

\* the score_component of the holder_concentration check that was run
Combined == Unwrap(checks_in[2].score_component)

\* C23: with the zero address as owner, top1 = 9, top5 = 33, age band
\* GreaterThan7d and Erc20 with known decimals, the four EVM checks
\* aggregate to fairness_score >= 95 and grade Strong.
C23_ZeroAddressRenounced ==
    (Returned /\ facts = FairLaunchFacts(9, 33)) =>
        /\ IsSome(Result.fairness_score)
        /\ Unwrap(Result.fairness_score) >= 95
        /\ Result.grade = "Strong"

\* the facts of the test give ownership_renounced Fail, score 66 and grade
\* Compromised
C23_ZeroAddressFails ==
    /\ Returned
    /\ facts = FairLaunchFacts(9, 33)
    /\ checks_in[1].id = "ownership_renounced"
    /\ checks_in[1].status = "Fail"
    /\ Result.fairness_score = Some(66)
    /\ Result.grade = "Compromised"

\* C25: the combined holder score lies in 0..100, does not increase when
\* top1_pct or top5_pct increases by one with the other fixed, and the two
\* curves are 100/60/25/0 at 10/20/40/70 and at 30/50/70/90.
C25_HolderConcentration ==
    pc \in {"aggregate", "returned"} =>
        /\ checks_in[2].id = "holder_concentration"
        /\ Combined = combined_score(Top1, Top5)
        /\ Combined \in 0..100
        /\ Top1 < MaxPct => combined_score(Top1 + 1, Top5) <= Combined
        /\ Top5 < MaxPct => combined_score(Top1, Top5 + 1) <= Combined
        /\ Top1 = 10 => score_top1(Top1) = BigFromInt(100)
        /\ Top1 = 20 => score_top1(Top1) = BigFromInt(60)
        /\ Top1 = 40 => score_top1(Top1) = BigFromInt(25)
        /\ Top1 = 70 => score_top1(Top1) = BigZero
        /\ Top5 = 30 => score_top5(Top5) = BigFromInt(100)
        /\ Top5 = 50 => score_top5(Top5) = BigFromInt(60)
        /\ Top5 = 70 => score_top5(Top5) = BigFromInt(25)
        /\ Top5 = 90 => score_top5(Top5) = BigZero

\* inside both curves, one point of top1_pct more lowers the combined score
C25_Witness ==
    /\ pc = "returned"
    /\ Top1 = 25
    /\ Top5 = 61
    /\ Combined = 46
    /\ combined_score(Top1 + 1, Top5) < Combined
    /\ checks_in[2].status = "Fail"

(***************************************************************************)
(* generate_explanation on its own: one call on any list of at most        *)
(* MaxChecks check results over the values below, with any grade.          *)
(***************************************************************************)
ExplainIds ==
    {"mint_authority_disabled", "ownership_renounced", "freeze_authority_disabled",
     "holder_concentration", "standard_sanity"}

ExplainCheckValues ==
    [id : ExplainIds, status : CheckStatus, severity : {"Critical", "High"},
     weight : {20}, score_component : {None, Some(49), Some(50)}]

ExplainCheckLists == UNION {[1..n -> ExplainCheckValues] : n \in 0..MaxChecks}

\* a ScoreResult of each end of the grade scale
ExplainScores ==
    {[panicked |-> FALSE, fairness_score |-> Some(100), grade |-> "Strong",
      components |-> <<>>, weights_total |-> 0],
     [panicked |-> FALSE, fairness_score |-> None, grade |-> "Compromised",
      components |-> <<>>, weights_total |-> 0]}

InitExplain ==
    /\ pc = "explain"
    /\ checks_in \in ExplainCheckLists
    /\ score_out \in {Some(score) : score \in ExplainScores}
    /\ request = [chain |-> "solana", include_holders |-> TRUE]
    /\ facts = NoFacts
    /\ errors = <<>>
    /\ calls = <<>>
    /\ response = None
    /\ NoCache
    /\ NoServer

\* generate_explanation(&checks, &score)
Explain ==
    /\ pc = "explain"
    /\ response' = Some(generate_explanation(checks_in, Unwrap(score_out)))
    /\ pc' = "explained"
    /\ UNCHANGED <<request, facts, errors, calls, aggVars, cacheVars, serverVars>>

NextExplain == Explain

SpecExplain == InitExplain /\ [][NextExplain]_vars

(***************************************************************************)
(* Properties of generate_explanation (SpecExplain)                        *)
(***************************************************************************)
Explained == pc = "explained"

WhatToDo == Unwrap(response).what_to_do

AnyFail(checks) == \E i \in 1..Len(checks) : checks[i].status = "Fail"

Remediations == {MintBullet, OwnerBullet, FreezeBullet, ConcentrationBullet}

\* some check of the list is one that a remediation bullet is written for
SpecificApplies(checks) ==
    \E i \in 1..Len(checks) :
        \/ /\ checks[i].status = "Fail"
           /\ checks[i].severity = "Critical"
           /\ checks[i].id \in {"mint_authority_disabled", "ownership_renounced"}
        \/ /\ checks[i].status = "Fail"
           /\ checks[i].severity = "High"
           /\ checks[i].id = "freeze_authority_disabled"
        \/ /\ checks[i].id = "holder_concentration"
           /\ IsSome(checks[i].score_component)
           /\ Unwrap(checks[i].score_component) < 50

\* C26: what_to_do is never empty; with a failed check it holds a
\* remediation or the generic message and never the affirmative one; the
\* affirmative message appears only when no check failed and no specific
\* bullet applies.
C26_NeverSilent ==
    Explained =>
        /\ WhatToDo # <<>>
        /\ AnyFail(checks_in) =>
              /\ \E i \in 1..Len(WhatToDo) : WhatToDo[i] \in Remediations \cup {GenericBullet}
              /\ ~InSeq(AffirmativeBullet, WhatToDo)
        /\ InSeq(AffirmativeBullet, WhatToDo) =>
              (~AnyFail(checks_in) /\ ~SpecificApplies(checks_in))

\* a failed check that no remediation is written for gets the generic message
C26_Witness ==
    /\ Explained
    /\ Len(checks_in) = 2
    /\ checks_in[1].status = "Fail"
    /\ checks_in[1].id = "standard_sanity"
    /\ checks_in[2].status = "Pass"
    /\ ~SpecificApplies(checks_in)
    /\ WhatToDo = <<GenericBullet>>

(***************************************************************************)
(* providers/alchemy.rs: analyze on an EVM chain against AlchemyProvider,  *)
(* each of whose fetches makes at most one rpc_call.  Hex strings are      *)
(* sequences of characters.                                                *)
(***************************************************************************)
RECURSIVE Repeat(_, _)
Repeat(c, n) == IF n = 0 THEN <<>> ELSE <<c>> \o Repeat(c, n - 1)

HexDigits == <<"0", "1", "2", "3", "4", "5", "6", "7", "8", "9",
               "a", "b", "c", "d", "e", "f">>

\* the 32-byte word that eth_call returns, ending in the given digits
HexWord(tail) == <<"0", "x">> \o Repeat("0", 64 - Len(tail)) \o tail

ZeroAddressChars == <<"0", "x">> \o Repeat("0", 40)

DeadAddressChars == <<"0", "x">> \o Repeat("0", 36) \o <<"d", "e", "a", "d">>

\* 1234567890123456789012345678901234567890
OwnerDigits ==
    LET ten == <<"1", "2", "3", "4", "5", "6", "7", "8", "9", "0">>
    IN  ten \o ten \o ten \o ten

\* the errors of rpc_call
RpcError == {"NetworkError", "InvalidResponse"}

\* rpc_call returns Ok(text) or Err(error)
RpcResults(texts) == {<<"Ok", t>> : t \in texts} \cup {<<"Err", e>> : e \in RpcError}

\* what decimals() may answer: nothing, 18, or a word too large for u8
DecimalsTexts == {<<"0", "x">>, HexWord(<<"1", "2">>), HexWord(<<"1", "0", "0">>)}

SupplyTexts == {HexWord(<<"d", "3", "c", "2">>)}

\* what owner() may answer: nothing, an owner, the zero or the dead address
OwnerTexts ==
    {<<"0", "x">>, HexWord(OwnerDigits), HexWord(<<>>), HexWord(<<"d", "e", "a", "d">>)}

\* the value of a hex digit, 16 for any other character
HexValue(c) ==
    IF \E d \in 1..16 : HexDigits[d] = c
    THEN (CHOOSE d \in 1..16 : HexDigits[d] = c) - 1
    ELSE 16

\* u8::from_str_radix(digits, 16).ok(): the digits from position i on,
\* with acc the value of those before
RECURSIVE ParseU8Hex(_, _, _)
ParseU8Hex(digits, i, acc) ==
    IF digits = <<>> THEN None
    ELSE IF i > Len(digits) THEN Some(acc)
    ELSE IF HexValue(digits[i]) = 16 \/ 16 * acc + HexValue(digits[i]) > 255 THEN None
    ELSE ParseU8Hex(digits, i + 1, 16 * acc + HexValue(digits[i]))

\* AlchemyProvider::fetch_metadata on the result of its rpc_call
alchemy_fetch_metadata(rpc) ==
    IF rpc[1] = "Err" THEN rpc
    ELSE LET decimals_result == rpc[2]
             decimals == IF Len(decimals_result) > 2
                         THEN LET digits == SubSeq(decimals_result, 3, Len(decimals_result))
                              IN  ParseU8Hex(digits, 1, 0)
                         ELSE None
         IN  <<"Ok", [standard |-> "Erc20", decimals |-> decimals]>>

\* AlchemyProvider::fetch_supply; total_supply is carried through unread
alchemy_fetch_supply(rpc) ==
    IF rpc[1] = "Err" THEN rpc
    ELSE <<"Ok", [total_supply |-> Some(1000000)]>>

\* the owner that fetch_authorities extracts from the text of owner()
owner_of(owner_result) ==
    IF Len(owner_result) >= 42
    THEN LET addr == <<"0", "x">>
                       \o SubSeq(owner_result, Len(owner_result) - 39, Len(owner_result))
         IN  IF addr = ZeroAddressChars \/ addr = DeadAddressChars
             THEN None ELSE Some(addr)
    ELSE None

\* AlchemyProvider::fetch_authorities: .await.unwrap_or_else(|_| "0x")
alchemy_fetch_authorities(rpc) ==
    LET owner_result == IF rpc[1] = "Err" THEN <<"0", "x">> ELSE rpc[2]
    IN  <<"Ok", [mint_authority |-> None, freeze_authority |-> None,
                 owner |-> owner_of(owner_result)]>>

\* fetch_holders and fetch_creation_time make no call
alchemy_fetch_holders == <<"Ok", [top1_pct |-> None, top5_pct |-> None]>>

alchemy_fetch_creation_time == <<"Ok", [age_band |-> "Unknown"]>>

InitAlchemy ==
    /\ pc = "fetch_metadata"
    /\ request \in [chain : {"base", "ethereum", "evm"}, include_holders : BOOLEAN]
    /\ facts = NoFacts
    /\ errors = <<>>
    /\ calls = <<>>
    /\ response = None
    /\ checks_in = <<>>
    /\ score_out = None
    /\ NoCache
    /\ NoServer

\* one `match provider.fetch_x(address).await` of gather_facts with the
\* result r of the fetch and the outcome of the rpc_call behind it
AlchemyFetch(here, category, r, rpc_outcome, next) ==
    /\ pc = here
    /\ calls' = Append(calls, <<category, r[1], rpc_outcome>>)
    /\ IF r[1] = "Ok"
       THEN /\ facts' = [facts EXCEPT ![category] = Some(r[2])]
            /\ UNCHANGED errors
       ELSE /\ errors' = Append(errors, <<"Failed to fetch", category, r[2]>>)
            /\ UNCHANGED facts
    /\ pc' = next
    /\ UNCHANGED <<request, response, aggVars, cacheVars, serverVars>>

AlchemyMetadata ==
    \E rpc \in RpcResults(DecimalsTexts) :
        AlchemyFetch("fetch_metadata", "metadata", alchemy_fetch_metadata(rpc),
                     rpc[1], "fetch_supply")

AlchemySupply ==
    \E rpc \in RpcResults(SupplyTexts) :
        AlchemyFetch("fetch_supply", "supply", alchemy_fetch_supply(rpc),
                     rpc[1], "fetch_authorities")

AlchemyAuthorities ==
    \E rpc \in RpcResults(OwnerTexts) :
        AlchemyFetch("fetch_authorities", "authorities", alchemy_fetch_authorities(rpc),
                     rpc[1], "fetch_holders")

AlchemyHolders ==
    /\ request.include_holders
    /\ AlchemyFetch("fetch_holders", "holders", alchemy_fetch_holders,
                    "none", "fetch_creation")

AlchemyCreation ==
    AlchemyFetch("fetch_creation", "creation", alchemy_fetch_creation_time,
                 "none", "checks")

NextAlchemy ==
    \/ AlchemyMetadata
    \/ AlchemySupply
    \/ AlchemyAuthorities
    \/ AlchemyHolders
    \/ SkipHolders
    \/ AlchemyCreation
    \/ Finish

SpecAlchemy == InitAlchemy /\ [][NextAlchemy]_vars

(***************************************************************************)
(* Properties of analyze against AlchemyProvider (SpecAlchemy)             *)
(***************************************************************************)
\* the rpc_call behind fetch_authorities failed
OwnerLookupFailed ==
    \E i \in 1..Len(calls) : calls[i][1] = "authorities" /\ calls[i][3] = "Err"

\* C30: when the owner() call of fetch_authorities fails, authorities are
\* absent, an authorities error is recorded and ownership_renounced is
\* Unknown.
C30_FailedLookupUnknown ==
    (Done /\ OwnerLookupFailed) =>
        /\ ~IsSome(facts.authorities)
        /\ \E i \in 1..Len(errors) : errors[i][2] = "authorities"
        /\ CheckOf("ownership_renounced").status = "Unknown"

\* the owner() call failed, no error was recorded and ownership_renounced
\* passed with score 100
C30_FailedLookupPasses ==
    /\ Done
    /\ OwnerLookupFailed
    /\ IsSome(facts.authorities)
    /\ Unwrap(facts.authorities).owner = None
    /\ errors = <<>>
    /\ Resp.status = "Ok"
    /\ CheckOf("ownership_renounced").status = "Pass"
    /\ CheckOf("ownership_renounced").score_component = Some(100)

(***************************************************************************)
(* Progress of analyze_handler (LiveServer)                                *)
(***************************************************************************)
Received(h) == h \in DOMAIN handlers

Finished(h) == h \in DOMAIN handlers /\ handlers[h].pc = "done"

\* some invocation has been received and has not returned, and each such
\* invocation waits for the lock while no invocation holds it and runs
AllWaiting ==
    /\ \E h \in Handlers : handlers[h].pc # "done"
    /\ \A h \in Handlers : handlers[h].pc \in {"lock", "done"}
    /\ lock # None

\* C21: every request received eventually returns, a lock that is held is
\* eventually released, and no state is reached in which every pending
\* request waits.
C21_EveryRequestReturns ==
    /\ \A h \in 1..MaxRequests : Received(h) ~> Finished(h)
    /\ (lock # None) ~> (lock = None)
    /\ []~AllWaiting

\* the second request waits for the lock while the first is at the provider
C21_Witness ==
    /\ pc = "server"
    /\ Len(handlers) = 2
    /\ handlers[1].pc = "analyze"
    /\ handlers[2].pc = "lock"
    /\ lock = Some(1)

(***************************************************************************)
(* Degraded responses and concurrent requests (SpecServer)                 *)
(***************************************************************************)
\* C28: every freshly computed response is stored, whatever its status, with
\* the TTL of ttl_for_response (1800 s when it has no token metadata, as every
\* response of status Error); a later call without force_refresh that finds
\* the entry before its TTL has elapsed returns that response, degraded or
\* not, without a provider call.
C28_DegradedCached ==
    \A h \in Handlers :
        (Answered(h) /\ handlers[h].source = "fresh") =>
            LET resp == Unwrap(handlers[h].response)
            IN  /\ IsSome(handlers[h].stored)
                /\ Unwrap(handlers[h].stored).response = resp
                /\ Unwrap(handlers[h].stored).ttl_seconds = ttl_for_response(resp)
                /\ resp.status = "Error" => resp.token = None
                /\ resp.token = None => Unwrap(handlers[h].stored).ttl_seconds = 1800
                /\ \A g \in Handlers \ {h} :
                      (/\ Answered(g)
                       /\ ~handlers[g].request.force_refresh
                       /\ handlers[g].found = handlers[h].stored
                       /\ FoundFresh(g)) =>
                          /\ handlers[g].source = "cache"
                          /\ handlers[g].fetched = 0
                          /\ Unwrap(handlers[g].response)
                                = [resp EXCEPT !.requested_at =
                                     CacheMarker(Unwrap(handlers[h].stored).cached_at)]

\* a response of status Error stored for 1800 s and returned from the cache
\* ten minutes later, the provider having been consulted once
C28_Witness ==
    /\ pc = "server"
    /\ Len(handlers) = 2
    /\ handlers[1].source = "fresh"
    /\ handlers[2].source = "cache"
    /\ handlers[2].pc = "done"
    /\ handlers[2].found = handlers[1].stored
    /\ Unwrap(handlers[1].response).status = "Error"
    /\ Unwrap(handlers[1].stored).ttl_seconds = 1800
    /\ Unwrap(handlers[2].response).status = "Error"
    /\ Unwrap(handlers[2].looked_at) - Unwrap(handlers[1].stored).cached_at = 600
    /\ provider_calls = handlers[1].fetched

\* invocation h has gone to the provider
Computes(h) == handlers[h].pc = "analyze" \/ handlers[h].source = "fresh"

\* the invocations past their cache lookup that have not stored yet
BetweenLookupAndStore == {h \in Handlers : handlers[h].pc \in {"analyze", "store"}}

\* C29: at most one invocation is between its cache lookup and its cache
\* store, and it holds the lock; of two calls without force_refresh for the
\* same key both go to the provider only if one of them found an expired
\* entry; and a call answered from the cache returns what another
\* invocation stored.
C29_LockAcrossFetch ==
    /\ Cardinality(BetweenLookupAndStore) <= 1
    /\ \A h \in BetweenLookupAndStore : lock = Some(h)
    /\ \A h \in Handlers : \A g \in Handlers \ {h} :
          (/\ ~handlers[h].request.force_refresh
           /\ ~handlers[g].request.force_refresh
           /\ IsSome(handlers[h].cache_key)
           /\ handlers[h].cache_key = handlers[g].cache_key
           /\ Computes(h)
           /\ Computes(g)) =>
              \/ IsSome(handlers[h].found) /\ ~FoundFresh(h)
              \/ IsSome(handlers[g].found) /\ ~FoundFresh(g)
    /\ \A g \in Handlers :
          handlers[g].source = "cache" =>
              \E h \in Handlers \ {g} :
                  /\ handlers[h].source = "fresh"
                  /\ handlers[h].stored = handlers[g].found

\* two requests without force_refresh for the same uncached key: one has
\* been to the provider and is about to store, the other still waits for
\* the lock
C29_Witness ==
    /\ pc = "server"
    /\ Len(handlers) = 2
    /\ handlers[1].request = handlers[2].request
    /\ ~handlers[1].request.force_refresh
    /\ handlers[1].pc = "store"
    /\ handlers[2].pc = "lock"
    /\ lock = Some(1)
    /\ entries = {}
    /\ provider_calls = handlers[1].fetched

====
